---- MODULE Spec2Model ----
(***************************************************************************)
(* The MathLabs evaluation pipeline (model_eval/evaluator.py and its       *)
(* hybrid variant model_eval/eval_new2.py) as a state machine, with the     *)
(* question generator (dataset/exp.py), the repair script                  *)
(* (model_eval/fixingdatabase.py) and the question viewer                  *)
(* (streamlit/pages/01_Question_Viewer.py) next to it.                     *)
(*                                                                         *)
(* Conventions.  A Python str is a sequence of one-character strings.      *)
(* Python None / JSON null is Null, a key missing from a dict is Absent,   *)
(* and a response whose content is None is the text NullText.  An accuracy *)
(* (a float rounded to three decimals) is kept as an integer number of     *)
(* thousandths, so 0.333 is 333 and 1.0 is 1000.                           *)
(***************************************************************************)
EXTENDS Integers, Sequences, FiniteSets, TLC

VARIABLES
    mode,        \* self.mode: "test" (files) or "db" (MongoDB)
    sampler,     \* self.sampler: "random" or "sequential"
    roster,      \* the student roster evaluate_question fans out to
    source,      \* the question source: [exists, questions]
    sample_size, \* the sample_size run_test is called with
    evals_db,    \* the evaluations collection: a sequence of run records
    evals_file,  \* evaluations.json: a sequence of run records
    pc,          \* where the control thread of the run is
    run_id,      \* run_test's run_id
    selected,    \* run_test's selected (the loaded question objects)
    i,           \* run_test's batch offset into selected (1-based)
    vals,        \* the corrections parsed for the current batch
    j,           \* position of the current question inside the batch
    mcq,         \* the per-run copy of the current question
    q_results,   \* run_test's q_results: the blocks so far
    futures,     \* evaluate_question: one future per roster model
    k,           \* evaluate_question: next future the control thread reads
    results,     \* evaluate_question: results collected so far
    eval_doc,    \* the run record handed to save_evaluation
    batch_log,   \* history: what happened to each batch
    q_log,       \* history: per selected question, corrections and calls
    saved,       \* history: the records save_evaluation was called with
    fresh,            \* exp.py: run_generation's fresh flag
    candidates,       \* exp.py: self.candidates, the baseline questions with an image
    all_files,        \* exp.py: the image files of the library directory
    target_questions, \* exp.py: run_generation's target_questions
    image_iterator,   \* exp.py: the images selected for the run
    idx,              \* exp.py: how many images the loop has gone through
    gen_all_mcqs,     \* exp.py: the keys of run_generation's all_mcqs, in insertion order
    calls,            \* history: the model calls run_generation sent
    run_file,         \* exp.py: the keys written to the file of the run
    master_file,      \* exp.py: the keys of generated_mcqs.json
    session_state,    \* viewer: st.session_state
    num_questions     \* viewer: num_questions

gen_vars == <<fresh, candidates, all_files, target_questions, image_iterator, idx,
              gen_all_mcqs, calls, run_file, master_file>>

view_vars == <<session_state, num_questions>>

\* the variables of a run of the evaluator other than pc, evals_db and saved
run_vars == <<mode, sampler, roster, source, sample_size, evals_file, run_id,
              selected, i, vals, j, mcq, q_results, futures, k, results,
              eval_doc, batch_log, q_log>>

vars == <<mode, sampler, roster, source, sample_size, evals_db, evals_file, pc, run_id,
          selected, i, vals, j, mcq, q_results, futures, k, results,
          eval_doc, batch_log, q_log, saved, gen_vars, view_vars>>

-----------------------------------------------------------------------------
(* Values *)

Null == "null"
Absent == "<absent>"
NullText == <<"<None>">>

Str0 == <<>>

Min(a, b) == IF a < b THEN a ELSE b

Take(s, n) == SubSeq(s, 1, Min(n, Len(s)))

RECURSIVE SumSeq(_)
SumSeq(s) == IF s = <<>> THEN 0 ELSE Head(s) + SumSeq(Tail(s))

Range(s) == {s[x] : x \in DOMAIN s}

\* the generator has not been started
GenIdle ==
    /\ fresh = FALSE
    /\ candidates = <<>>
    /\ all_files = <<>>
    /\ target_questions = 0
    /\ image_iterator = <<>>
    /\ idx = 0
    /\ gen_all_mcqs = <<>>
    /\ calls = <<>>
    /\ run_file = Absent
    /\ master_file = <<>>

\* no viewer session is open
ViewIdle ==
    /\ session_state = [q_index |-> Absent, answered |-> Absent, user_choice |-> Absent]
    /\ num_questions = 0

-----------------------------------------------------------------------------
(* Program constants *)

BATCH_SIZE == 2

SHUFFLE_CHOICES == TRUE

MASTER_MODEL == "anthropic/claude-opus-4"

STUDENT_MODELS == <<"openai/gpt-4o-mini", "anthropic/claude-sonnet-4">>

MCQ_COLLECTION == "mcqs"

HTTP_TEXT_LIMIT == 200

FALLBACK_WINDOW == 120

REASONING_LIMIT == 500

-----------------------------------------------------------------------------
(* Text: the regular expressions of extract_answer and extract_reasoning *)

LowerCase == <<"a","b","c","d","e","f","g","h","i","j","k","l","m",
               "n","o","p","q","r","s","t","u","v","w","x","y","z">>

UpperCase == <<"A","B","C","D","E","F","G","H","I","J","K","L","M",
               "N","O","P","Q","R","S","T","U","V","W","X","Y","Z">>

Digits == {"0","1","2","3","4","5","6","7","8","9"}

\* str.upper() on one character
Upper(c) ==
    IF \E x \in 1..26 : LowerCase[x] = c
    THEN UpperCase[CHOOSE x \in 1..26 : LowerCase[x] = c]
    ELSE c

\* \s
IsSpace(c) == c \in {" ", "\n", "\t", "\r"}

\* \w
IsWordChar(c) == c \in Range(LowerCase) \cup Range(UpperCase) \cup Digits \cup {"_"}

ANSWER_MARKER == <<"A","N","S","W","E","R",":">>

REASONING_MARKER == <<"R","E","A","S","O","N","I","N","G",":">>

ANSWER_LETTERS == <<"A","B","C","D">>

\* the marker matches at position p, ignoring case (re.I)
MarkerAt(text, p, marker) ==
    /\ p >= 1
    /\ p + Len(marker) - 1 <= Len(text)
    /\ \A x \in 1..Len(marker) : Upper(text[p + x - 1]) = marker[x]

\* the first position >= p that holds no white space (Len(text)+1 if none)
SkipSpace(text, p) ==
    CHOOSE q \in p..(Len(text) + 1) :
        /\ q = Len(text) + 1 \/ ~IsSpace(text[q])
        /\ \A x \in p..(q - 1) : IsSpace(text[x])

\* re.search(r"ANSWER:\s*([A-D])", text, re.I) matches at position p
AnswerMatchAt(text, p) ==
    /\ MarkerAt(text, p, ANSWER_MARKER)
    /\ LET q == SkipSpace(text, p + Len(ANSWER_MARKER))
       IN  q <= Len(text) /\ Upper(text[q]) \in Range(ANSWER_LETTERS)

\* re.search(rf"\b{l}\b", window): the letter stands alone somewhere
IsolatedIn(window, l) ==
    \E p \in 1..Len(window) :
        /\ window[p] = l
        /\ p = 1 \/ ~IsWordChar(window[p - 1])
        /\ p = Len(window) \/ ~IsWordChar(window[p + 1])

Strip(s) ==
    IF \A x \in 1..Len(s) : IsSpace(s[x]) THEN Str0
    ELSE LET a == CHOOSE x \in 1..Len(s) :
                      ~IsSpace(s[x]) /\ \A y \in 1..(x - 1) : IsSpace(s[y])
             b == CHOOSE x \in 1..Len(s) :
                      ~IsSpace(s[x]) /\ \A y \in (x + 1)..Len(s) : IsSpace(s[y])
         IN  SubSeq(s, a, b)

\* an extraction whose second search reads the whole text
extract_answer_unbounded(text) ==
    IF \E p \in 1..Len(text) : AnswerMatchAt(text, p)
    THEN LET p == CHOOSE x \in 1..Len(text) :
                      AnswerMatchAt(text, x) /\ \A y \in 1..(x - 1) : ~AnswerMatchAt(text, y)
         IN  Upper(text[SkipSpace(text, p + Len(ANSWER_MARKER))])
    ELSE IF \E x \in 1..4 : IsolatedIn(text, ANSWER_LETTERS[x])
         THEN ANSWER_LETTERS[CHOOSE x \in 1..4 :
                  /\ IsolatedIn(text, ANSWER_LETTERS[x])
                  /\ \A y \in 1..(x - 1) : ~IsolatedIn(text, ANSWER_LETTERS[y])]
         ELSE Null

\* evaluator.py extract_answer
extract_answer(text) ==
    IF \E p \in 1..Len(text) : AnswerMatchAt(text, p)
    THEN LET p == CHOOSE x \in 1..Len(text) :
                      AnswerMatchAt(text, x) /\ \A y \in 1..(x - 1) : ~AnswerMatchAt(text, y)
         IN  Upper(text[SkipSpace(text, p + Len(ANSWER_MARKER))])
    ELSE LET window == Take(text, FALLBACK_WINDOW)
         IN  IF \E x \in 1..4 : IsolatedIn(window, ANSWER_LETTERS[x])
             THEN ANSWER_LETTERS[CHOOSE x \in 1..4 :
                      /\ IsolatedIn(window, ANSWER_LETTERS[x])
                      /\ \A y \in 1..(x - 1) : ~IsolatedIn(window, ANSWER_LETTERS[y])]
             ELSE Null

\* re.search(r"REASONING:\s*(.+)", text, re.I | re.S) matches at position p:
\* the marker followed by at least one character (\s* gives one back to .+)
ReasoningMatchAt(text, p) ==
    MarkerAt(text, p, REASONING_MARKER) /\ p + Len(REASONING_MARKER) <= Len(text)

\* evaluator.py extract_reasoning
extract_reasoning(text) ==
    IF \E p \in 1..Len(text) : ReasoningMatchAt(text, p)
    THEN LET p == CHOOSE x \in 1..Len(text) :
                      ReasoningMatchAt(text, x) /\ \A y \in 1..(x - 1) : ~ReasoningMatchAt(text, y)
         IN  Take(Strip(SubSeq(text, p + Len(REASONING_MARKER), Len(text))), REASONING_LIMIT)
    ELSE Take(text, REASONING_LIMIT)

-----------------------------------------------------------------------------
(* Numbers: Python's round(x, 3) and int(x) on the quotients the code forms *)

\* a / b rounded to the nearest integer, a tie going to the even one
RoundHalfEven(a, b) ==
    LET q == a \div b
        r == a % b
    IN  IF 2 * r < b THEN q
        ELSE IF 2 * r > b THEN q + 1
        ELSE IF q % 2 = 0 THEN q ELSE q + 1

\* round(num / den, 3), in thousandths
Round3(num, den) == RoundHalfEven(1000 * num, den)

\* int(num / den) for num >= 0
IntDiv(num, den) == num \div den

-----------------------------------------------------------------------------
(* Records of the data model *)

Choice(id, text) == [id |-> id, text |-> text]

\* a question as the source holds it (no validation stamped yet)
NoValidation ==
    [validated_by |-> Absent, original_answer |-> Absent, final_answer |-> Absent,
     original_difficulty |-> Absent, final_difficulty |-> Absent,
     shuffle_applied |-> FALSE, issues |-> <<>>]

Question(pid, choices, key, difficulty) ==
    [problem_id |-> pid, choices |-> choices, answer |-> [correct_ids |-> <<key>>],
     difficulty |-> difficulty, validation |-> NoValidation]

\* two choices with distinct texts, key A
Q1 == Question("p1", <<Choice("A", "x"), Choice("B", "y")>>, "A", "medium")

\* two choices that carry the same text, no difficulty recorded
Q2 == Question("p2", <<Choice("A", "x"), Choice("B", "x")>>, "B", Absent)

Q3 == Question("p3", <<Choice("A", "y"), Choice("B", "x")>>, "A", "hard")

\* ascending order of the identifiers (sort("problem_id", 1))
IdOrder == <<"p1", "p2", "p3">>

\* the per-run copy run_test makes with mcq.copy(): the copy owns its
\* difficulty and validation; choices and answer stay the objects of
\* selected[ref] (a shallow copy shares them)
NoMcq == [ref |-> 0, problem_id |-> Absent, difficulty |-> Absent, validation |-> NoValidation]

\* what the network gives back for one request
HttpOk(content, ms) == [kind |-> "ok", status |-> "200", body |-> content, ms |-> ms]

HttpFail(status, body, ms) == [kind |-> "http", status |-> status, body |-> body, ms |-> ms]

NetException(msg, ms) == [kind |-> "exception", status |-> Absent, body |-> msg, ms |-> ms]

TextAnswerA == <<"A","N","S","W","E","R",":"," ","A","\n","R","E","A","S","O","N","I","N","G",":"," ","o","k">>

TextNoLetter == <<"i","d","k">>

TextRateLimited == <<"b","u","s","y">>

TextTimeout == <<"t","i","m","e","o","u","t">>

\* str(status) of an HTTP status code, as text
StatusText(status) ==
    IF status = "429" THEN <<"4","2","9">> ELSE <<"5","0","0">>

\* the responses a student model may give
StudentOutcomes ==
    { HttpOk(TextAnswerA, 20), HttpFail("429", TextRateLimited, 5), HttpOk(NullText, 20) }

\* the corrections a validator array may hold
ValCorrections ==
    { [final_answer |-> "A", difficulty |-> "medium", shuffle |-> TRUE, issues |-> <<>>],
      [final_answer |-> "B", difficulty |-> "hard", shuffle |-> FALSE, issues |-> <<"unclear">>],
      [final_answer |-> Absent, difficulty |-> "easy", shuffle |-> FALSE, issues |-> <<>>],
      [final_answer |-> "A", difficulty |-> Absent, shuffle |-> FALSE, issues |-> <<>>] }

-----------------------------------------------------------------------------
(* evaluator.py: the pure parts of the handlers *)

TextHttp == <<"H","T","T","P"," ">>

TextColon == <<":"," ">>

TextException == <<"E","x","c","e","p","t","i","o","n",":"," ">>

\* call_model: the dict it returns for what the network gave back; it
\* captures every failure and never raises
call_model(outcome) ==
    IF outcome.kind = "ok"
    THEN [error |-> FALSE, content |-> outcome.body, time_ms |-> outcome.ms]
    ELSE IF outcome.kind = "http"
    THEN [error |-> TRUE,
          content |-> TextHttp \o StatusText(outcome.status) \o TextColon
                      \o Take(outcome.body, HTTP_TEXT_LIMIT),
          time_ms |-> outcome.ms]
    ELSE [error |-> TRUE, content |-> TextException \o outcome.body, time_ms |-> outcome.ms]

\* parse_validation: the array the regular expression finds and json.loads
\* decodes, or [] when there is no array or it does not decode.  The
\* validator's text is kept by its shape: "array" (a JSON array of at
\* least one object, arr), "noarray" or "badjson"; the shape "none" is a
\* content of None, on which re.search raises TypeError before anything is
\* returned (the caller models the raise).
parse_validation(content) ==
    IF content.shape = "array" THEN content.arr ELSE <<>>

\* the permutations random.shuffle may pick for a list of n elements
Perms(n) == {f \in [1..n -> 1..n] : \A a, b \in 1..n : f[a] = f[b] => a = b}

\* a draw with replacement: every position gets the choice drawn first
Shuffled_resampled(choices, f) == [x \in 1..Len(choices) |-> choices[f[1]]]

\* a shuffle that leaves the ids where they are and moves only the texts
Shuffled_texts(choices, f) ==
    [x \in 1..Len(choices) |-> [id |-> choices[x].id, text |-> choices[f[x]].text]]

\* random.shuffle(choices) under permutation f: the dicts move, each
\* keeping its id and its text
Shuffled(choices, f) == [x \in 1..Len(choices) |-> choices[f[x]]]

\* next((x["text"] for x in choices if x["id"] == old_correct), None)
TextOfId(choices, id) ==
    IF \E x \in 1..Len(choices) : choices[x].id = id
    THEN choices[CHOOSE x \in 1..Len(choices) :
             choices[x].id = id /\ \A y \in 1..(x - 1) : choices[y].id # id].text
    ELSE Null

\* a re-match that takes the id of whichever choice comes first
Rematch_first(choices, old_correct, key) == <<choices[1].id>>

\* the for loop of apply_validation lines 238-241: the id of the first choice
\* whose text is the text of the choice named old_correct, or the key as it is
Rematch(choices, old_correct, key) ==
    LET target == TextOfId(choices, old_correct)
    IN  IF \E x \in 1..Len(choices) : choices[x].text = target
        THEN <<choices[CHOOSE x \in 1..Len(choices) :
                   choices[x].text = target /\ \A y \in 1..(x - 1) : choices[y].text # target].id>>
        ELSE key

\* a reading of the difficulty without the default
DifficultyOf_raw(m) == m.difficulty

\* mcq.get("difficulty", "unknown")
DifficultyOf(m) == IF m.difficulty = Absent THEN "unknown" ELSE m.difficulty

ShuffleApplied(val) == SHUFFLE_CHOICES /\ val.shuffle

\* apply_validation(mcq, val) on the copy m whose choices and answer are
\* the shared objects of question q, with f the permutation the shuffle
\* draws: [raised, mcq, q] afterwards.  val["final_answer"] (line 230) and
\* val["difficulty"] (line 232) raise KeyError when the key is missing, the
\* second after the answer key has already been overwritten.
apply_validation(m, q, val, f) ==
    LET orig_ans == q.answer.correct_ids[1]
        orig_diff == DifficultyOf(m)
        key1 == IF val.final_answer # orig_ans THEN <<val.final_answer>> ELSE q.answer.correct_ids
        diff1 == IF val.difficulty # orig_diff THEN val.difficulty ELSE m.difficulty
        choices1 == IF ShuffleApplied(val) THEN Shuffled(q.choices, f) ELSE q.choices
        key2 == IF ShuffleApplied(val) THEN Rematch(choices1, val.final_answer, key1) ELSE key1
    IN  IF val.final_answer = Absent
        THEN [raised |-> TRUE, mcq |-> m, q |-> q]
        ELSE IF val.difficulty = Absent
        THEN [raised |-> TRUE, mcq |-> m, q |-> [q EXCEPT !.answer.correct_ids = key1]]
        ELSE [raised |-> FALSE,
              mcq |-> [m EXCEPT !.difficulty = diff1,
                                !.validation =
                                    [validated_by |-> MASTER_MODEL,
                                     original_answer |-> orig_ans,
                                     final_answer |-> val.final_answer,
                                     original_difficulty |-> orig_diff,
                                     final_difficulty |-> val.difficulty,
                                     shuffle_applied |-> ShuffleApplied(val),
                                     issues |-> val.issues]],
              q |-> [q EXCEPT !.answer.correct_ids = key2, !.choices = choices1]]

\* one student evaluation result (evaluate_question lines 284-289); the
\* caller has ruled out a None content, on which extract_answer raises
StudentResult(model, r, ground) ==
    IF r.error
    THEN [model |-> model, answer |-> Null, reasoning |-> r.content,
          correct |-> FALSE, time_ms |-> r.time_ms]
    ELSE [model |-> model, answer |-> extract_answer(r.content),
          reasoning |-> extract_reasoning(r.content),
          correct |-> (extract_answer(r.content) = ground), time_ms |-> r.time_ms]

NumCorrect(res) == Cardinality({x \in 1..Len(res) : res[x].correct})

SumTimes(res) == SumSeq([x \in 1..Len(res) |-> res[x].time_ms])

\* question statistics that leave the calls without an answer out of the
\* denominator
QuestionStats_answered(res) ==
    LET answered == Cardinality({x \in 1..Len(res) : res[x].answer # Null})
    IN  IF answered = 0 THEN [accuracy |-> 0, avg_time_ms |-> 0]
        ELSE [accuracy |-> Round3(NumCorrect(res), answered),
              avg_time_ms |-> IntDiv(SumTimes(res), Len(res))]

\* question_stats of a block (lines 291-298)
QuestionStats(res) ==
    IF res = <<>> THEN [accuracy |-> 0, avg_time_ms |-> 0]
    ELSE [accuracy |-> Round3(NumCorrect(res), Len(res)),
          avg_time_ms |-> IntDiv(SumTimes(res), Len(res))]

\* a block whose statistics look at the first result only
Block_first(m, res) ==
    [original_mcq_ref |-> [problem_id |-> m.problem_id, collection |-> MCQ_COLLECTION],
     validation |-> m.validation,
     student_evaluations |-> res,
     question_stats |-> QuestionStats(Take(res, 1))]

\* the block evaluate_question returns
Block(m, res) ==
    [original_mcq_ref |-> [problem_id |-> m.problem_id, collection |-> MCQ_COLLECTION],
     validation |-> m.validation,
     student_evaluations |-> res,
     question_stats |-> QuestionStats(res)]

\* a summary that truncates the mean accuracy instead of rounding it
Summary_floor(blocks) ==
    IF blocks = <<>> THEN [overall_accuracy |-> 0, avg_question_time_ms |-> 0]
    ELSE [overall_accuracy |->
              IntDiv(SumSeq([x \in 1..Len(blocks) |-> blocks[x].question_stats.accuracy]),
                     Len(blocks)),
          avg_question_time_ms |->
              IntDiv(SumSeq([x \in 1..Len(blocks) |-> blocks[x].question_stats.avg_time_ms]),
                     Len(blocks))]

\* summary of run_test (lines 326-357)
Summary(blocks) ==
    IF blocks = <<>> THEN [overall_accuracy |-> 0, avg_question_time_ms |-> 0]
    ELSE [overall_accuracy |->
              RoundHalfEven(SumSeq([x \in 1..Len(blocks) |-> blocks[x].question_stats.accuracy]),
                            Len(blocks)),
          avg_question_time_ms |->
              IntDiv(SumSeq([x \in 1..Len(blocks) |-> blocks[x].question_stats.avg_time_ms]),
                     Len(blocks))]

TextAllFailed == "All validation batches failed"

\* eval_doc of run_test: the record with the error key when no block exists
EvalDoc(rid, md, smp, nsel, ros, blocks) ==
    [test_run_id |-> rid, mode |-> md, sampler |-> smp, batch_size |-> nsel,
     validation_model |-> MASTER_MODEL, student_models |-> ros,
     shuffle_enabled |-> SHUFFLE_CHOICES, questions |-> blocks,
     summary |-> Summary(blocks),
     error |-> IF blocks = <<>> THEN TextAllFailed ELSE Absent]

NoDoc == EvalDoc(Absent, Absent, Absent, 0, <<>>, <<>>)

\* update_one({"test_run_id": id}, {"$set": doc}, upsert=True): the first
\* record with that id gets every key of doc, keeping the keys doc lacks;
\* with no such record, doc is inserted
SaveDb(coll, doc) ==
    IF \E x \in 1..Len(coll) : coll[x].test_run_id = doc.test_run_id
    THEN LET at == CHOOSE x \in 1..Len(coll) :
                       /\ coll[x].test_run_id = doc.test_run_id
                       /\ \A y \in 1..(x - 1) : coll[y].test_run_id # doc.test_run_id
         IN  [coll EXCEPT ![at] =
                 [doc EXCEPT !.error = IF doc.error = Absent THEN coll[at].error ELSE doc.error]]
    ELSE Append(coll, doc)

\* file mode: the list in evaluations.json (none yet: []) with doc appended
SaveFile(file, doc) == Append(file, doc)

-----------------------------------------------------------------------------
(* Bounds and inputs of the model *)

\* the largest sample_size a run is started with
MaxSample == 3

\* the longest correction array the validator returns
MaxVals == 3

RunIds == {"run_20250101_000000"}

Modes == {"test", "db"}

Samplers == {"sequential", "random"}

\* the question source: missing, empty, or holding three questions
Sources ==
    { [exists |-> FALSE, questions |-> <<>>],
      [exists |-> TRUE, questions |-> <<>>],
      [exists |-> TRUE, questions |-> <<Q1, Q2, Q3>>] }

\* the arrays of 1..MaxVals corrections
ValArrays == UNION {[1..n -> ValCorrections] : n \in 1..MaxVals}

\* what the validator call may come back with
ValidatorOutcomes ==
    { HttpFail("500", TextTimeout, 40), NetException(TextTimeout, 90),
      HttpOk([shape |-> "noarray", arr |-> <<>>], 40),
      HttpOk([shape |-> "badjson", arr |-> <<>>], 40),
      HttpOk([shape |-> "none", arr |-> <<>>], 40) }
    \cup { HttpOk([shape |-> "array", arr |-> a], 40) : a \in ValArrays }

-----------------------------------------------------------------------------
(* load_mcqs *)

Rank(pid) == CHOOSE x \in 1..Len(IdOrder) : IdOrder[x] = pid

\* cursor.sort("problem_id", 1)
SortById(qs) ==
    LET f == CHOOSE g \in Perms(Len(qs)) :
                 \A a, b \in 1..Len(qs) :
                     a < b => Rank(qs[g[a]].problem_id) <= Rank(qs[g[b]].problem_id)
    IN  [x \in 1..Len(qs) |-> qs[f[x]]]

\* the samples of n elements without replacement, in any order
Samples(qs, n) ==
    { [x \in 1..n |-> qs[f[x]]] :
        f \in {g \in [1..n -> 1..Len(qs)] : \A a, b \in 1..n : g[a] = g[b] => a = b} }

\* the lists load_mcqs(sample_size) may return; the empty set when it raises
\* (file mode without the file; a $sample stage of size 0)
load_mcqs(md, smp, src, size) ==
    IF md = "db"
    THEN IF smp = "random"
         THEN IF size = 0 THEN {}
              ELSE Samples(src.questions, Min(size, Len(src.questions)))
         ELSE IF size = 0 THEN {SortById(src.questions)}
              ELSE {Take(SortById(src.questions), size)}
    ELSE IF ~src.exists THEN {}
         ELSE LET all_mcqs == SelectSeq(src.questions, LAMBDA q : q.problem_id # Absent)
              IN  IF smp = "random"
                  THEN Samples(all_mcqs, Min(size, Len(all_mcqs)))
                  ELSE {Take(all_mcqs, size)}

-----------------------------------------------------------------------------
(* run_test of evaluator.py, step by step *)

NoLog == [corrected |-> 0, dispatched |-> 0, errored |-> 0, blocks |-> 0]

Pending == [done |-> FALSE, error |-> FALSE, content |-> Str0, time_ms |-> 0]

\* the batch selected[i : i + BATCH_SIZE]
Batch == SubSeq(selected, i, Min(i + BATCH_SIZE - 1, Len(selected)))

\* index into selected of the question the loop is at
Cur == i + j - 1

\* a pairing that reads the corrections from the end of the array
CorrectionFor_reversed(vs, x) == vs[Len(vs) + 1 - x]

\* line 320: zip(batch, vals) pairs the x-th question with the x-th correction
CorrectionFor(vs, x) == vs[x]

\* a loop that stays on a batch whose validation failed
AfterFailedBatch_retry(off) == off

\* lines 314 and 319: continue takes the loop to the next offset of
\* range(0, len(selected), BATCH_SIZE)
AfterFailedBatch(off) == off + BATCH_SIZE

\* a length check that only rejects an array shorter than the batch
LengthMismatch_short(parsed, batch) == Len(parsed) < Len(batch)

\* line 317: the corrections do not pair up with the batch
LengthMismatch(parsed, batch) == Len(parsed) # Len(batch)

\* lines 305-307: load the questions and name the run after the second the
\* clock shows, one of ids
LoadMcqsAt(ids) ==
    /\ pc = "start"
    /\ LET loaded == load_mcqs(mode, sampler, source, sample_size)
         IN  IF loaded = {}
             THEN /\ pc' = "raised"
                  /\ UNCHANGED <<selected, run_id, i, q_log>>
             ELSE /\ \E sel \in loaded :
                        /\ selected' = sel
                        /\ q_log' = [x \in 1..Len(sel) |-> NoLog]
                  /\ \E rid \in ids : run_id' = rid
                  /\ i' = 1
                  /\ pc' = "batch"
    /\ UNCHANGED <<gen_vars, view_vars, mode, sampler, roster, source, sample_size, evals_db, evals_file, vals, j, mcq,
                   q_results, futures, k, results, eval_doc, batch_log, saved>>

LoadMcqs == LoadMcqsAt(RunIds)

\* lines 309-319: one validator call for the batch at offset i, its parse
\* and the length check; a failed batch is skipped.  A call that succeeded
\* with a content of None makes parse_validation raise.
ValidateBatchFrom(outcomes) ==
    /\ pc = "batch"
    /\ i <= Len(selected)
    /\ \E outcome \in outcomes :
         LET resp == call_model(outcome)
             raises == ~resp.error /\ resp.content.shape = "none"
             parsed == IF resp.error \/ raises THEN <<>> ELSE parse_validation(resp.content)
             status == IF resp.error THEN "error"
                       ELSE IF raises THEN "raised"
                       ELSE IF LengthMismatch(parsed, Batch) THEN "mismatch" ELSE "ok"
         IN  /\ batch_log' = Append(batch_log,
                     [offset |-> i, size |-> Len(Batch), status |-> status,
                      nvals |-> Len(parsed)])
             /\ IF status = "ok"
                THEN /\ vals' = parsed
                     /\ j' = 1
                     /\ pc' = "apply"
                     /\ i' = i
                ELSE IF status = "raised"
                THEN /\ pc' = "raised"
                     /\ UNCHANGED <<vals, j, i>>
                ELSE /\ i' = AfterFailedBatch(i)
                     /\ UNCHANGED <<vals, j, pc>>
    /\ UNCHANGED <<gen_vars, view_vars, mode, sampler, roster, source, sample_size, evals_db, evals_file, run_id, selected,
                   mcq, q_results, futures, k, results, eval_doc, q_log, saved>>

ValidateBatch == ValidateBatchFrom(ValidatorOutcomes)

\* line 321: mcq.copy() and apply_validation on the copy
ApplyValidation ==
    /\ pc = "apply"
    /\ \E f \in Perms(Len(selected[Cur].choices)) :
         LET copy == [ref |-> Cur, problem_id |-> selected[Cur].problem_id,
                      difficulty |-> selected[Cur].difficulty,
                      validation |-> selected[Cur].validation]
             out == apply_validation(copy, selected[Cur], CorrectionFor(vals, j), f)
         IN  /\ mcq' = out.mcq
             /\ selected' = [selected EXCEPT ![Cur] = out.q]
             /\ pc' = IF out.raised THEN "raised" ELSE "evaluate"
    /\ q_log' = [q_log EXCEPT ![Cur].corrected = @ + 1]
    /\ UNCHANGED <<gen_vars, view_vars, mode, sampler, roster, source, sample_size, evals_db, evals_file, run_id, i, vals, j,
                   q_results, futures, k, results, eval_doc, batch_log, saved>>

\* evaluate_question lines 274-279: one call per roster model is submitted
\* to the thread pool
SubmitCalls ==
    /\ pc = "evaluate"
    /\ futures' = [x \in 1..Len(roster) |-> Pending]
    /\ k' = 1
    /\ results' = <<>>
    /\ pc' = "collect"
    /\ q_log' = [q_log EXCEPT ![Cur].dispatched = @ + Len(roster)]
    /\ UNCHANGED <<gen_vars, view_vars, mode, sampler, roster, source, sample_size, evals_db, evals_file, run_id, selected,
                   i, vals, j, mcq, q_results, eval_doc, batch_log, saved>>

\* a worker thread: call_model for roster member m settles its future with
\* one of the given outcomes of the network
CallModelFrom(m, outcomes) ==
    /\ m \in DOMAIN futures
    /\ ~futures[m].done
    /\ \E outcome \in outcomes :
         LET r == call_model(outcome)
         IN  /\ futures' = [futures EXCEPT ![m] =
                     [done |-> TRUE, error |-> r.error, content |-> r.content,
                      time_ms |-> r.time_ms]]
             /\ q_log' = [q_log EXCEPT ![Cur].errored = @ + (IF r.error THEN 1 ELSE 0)]
    /\ UNCHANGED <<gen_vars, view_vars, mode, sampler, roster, source, sample_size, evals_db, evals_file, pc, run_id,
                   selected, i, vals, j, mcq, q_results, k, results, eval_doc,
                   batch_log, saved>>

CallModelStudent(m) == CallModelFrom(m, StudentOutcomes)

\* a loop that reads the futures from the one submitted last
ReadOrder_reversed(n) == Len(roster) + 1 - n

\* line 282: "for f in futures" walks the dict in insertion order, which
\* is the order of the roster: the n-th future read is the n-th submitted
ReadOrder(n) == n

\* a read of a future that does not wait for it
Settled_nowait(f) == TRUE

\* f.result() returns only once the call of the future has returned
Settled(f) == f.done

\* lines 281-289: f.result() of the next future, in roster order; a None
\* content of a successful call makes extract_answer raise TypeError
CollectResult ==
    /\ pc = "collect"
    /\ k <= Len(roster)
    /\ Settled(futures[ReadOrder(k)])
    /\ IF ~futures[ReadOrder(k)].error /\ futures[ReadOrder(k)].content = NullText
       THEN /\ pc' = "raised"
            /\ UNCHANGED <<k, results>>
       ELSE /\ results' = Append(results,
                   StudentResult(roster[ReadOrder(k)], futures[ReadOrder(k)],
                                 mcq.validation.final_answer))
            /\ k' = k + 1
            /\ pc' = pc
    /\ UNCHANGED <<gen_vars, view_vars, mode, sampler, roster, source, sample_size, evals_db, evals_file, run_id, selected,
                   i, vals, j, mcq, q_results, futures, eval_doc, batch_log, q_log, saved>>

\* lines 291-299 and 322-323: the block is scored and appended, and the loop
\* moves to the next question of the batch or to the next batch
ScoreQuestion ==
    /\ pc = "collect"
    /\ k > Len(roster)
    /\ q_results' = Append(q_results, Block(mcq, results))
    /\ q_log' = [q_log EXCEPT ![Cur].blocks = @ + 1]
    /\ futures' = <<>>
    /\ k' = 0
    /\ results' = <<>>
    /\ mcq' = NoMcq
    /\ IF j < Len(Batch)
       THEN /\ j' = j + 1
            /\ pc' = "apply"
            /\ UNCHANGED <<i, vals>>
       ELSE /\ j' = 0
            /\ vals' = <<>>
            /\ i' = i + BATCH_SIZE
            /\ pc' = "batch"
    /\ UNCHANGED <<gen_vars, view_vars, mode, sampler, roster, source, sample_size, evals_db, evals_file, run_id, selected,
                   eval_doc, batch_log, saved>>

\* save_evaluation(eval_doc)
save_evaluation(doc) ==
    /\ IF mode = "db"
       THEN evals_db' = SaveDb(evals_db, doc) /\ UNCHANGED evals_file
       ELSE evals_file' = SaveFile(evals_file, doc) /\ UNCHANGED evals_db
    /\ saved' = Append(saved, doc)

\* lines 325-361: the summary, the run record and its persistence
Finish ==
    /\ pc = "batch"
    /\ i > Len(selected)
    /\ LET doc == EvalDoc(run_id, mode, sampler, Len(selected), roster, q_results)
       IN  /\ eval_doc' = doc
           /\ save_evaluation(doc)
    /\ pc' = "done"
    /\ UNCHANGED <<gen_vars, view_vars, mode, sampler, roster, source, sample_size, run_id, selected, i, vals, j, mcq,
                   q_results, futures, k, results, batch_log, q_log>>

Init ==
    /\ mode \in Modes
    /\ sampler \in Samplers
    /\ roster = STUDENT_MODELS
    /\ source \in Sources
    /\ sample_size \in 0..MaxSample
    /\ evals_db = <<>>
    /\ evals_file = <<>>
    /\ pc = "start"
    /\ run_id = Absent
    /\ selected = <<>>
    /\ i = 0
    /\ vals = <<>>
    /\ j = 0
    /\ mcq = NoMcq
    /\ q_results = <<>>
    /\ futures = <<>>
    /\ k = 0
    /\ results = <<>>
    /\ eval_doc = NoDoc
    /\ batch_log = <<>>
    /\ q_log = <<>>
    /\ saved = <<>>
    /\ GenIdle
    /\ ViewIdle

Next ==
    \/ LoadMcqs
    \/ ValidateBatch
    \/ ApplyValidation
    \/ SubmitCalls
    \/ \E m \in 1..Len(STUDENT_MODELS) : CallModelStudent(m)
    \/ CollectResult
    \/ ScoreQuestion
    \/ Finish

Spec == Init /\ [][Next]_vars

-----------------------------------------------------------------------------
(* evaluate_question on one corrected question, with a wider environment:  *)
(* the state of run_test right after the validator returned one correction *)
(* for a batch of one, the roster being the shipped one or one model       *)
(* longer, and the student calls answering from a larger set.              *)

TextLowerB == <<"a","n","s","w","e","r",":","b">>

Rosters == {STUDENT_MODELS, STUDENT_MODELS \o <<"google/gemini-2.0-flash-exp:free">>}

WideCorrections ==
    ValCorrections
    \cup { [final_answer |-> Null, difficulty |-> "hard", shuffle |-> FALSE, issues |-> <<>>],
           [final_answer |-> Null, difficulty |-> "easy", shuffle |-> TRUE, issues |-> <<>>] }

WideStudentOutcomes ==
    StudentOutcomes
    \cup { HttpOk(TextNoLetter, 30), HttpOk(TextLowerB, 45), NetException(TextTimeout, 90) }

CallModelWide(m) == CallModelFrom(m, WideStudentOutcomes)

InitEval ==
    /\ mode = "test"
    /\ sampler = "random"
    /\ roster \in Rosters
    /\ source = [exists |-> TRUE, questions |-> <<Q1, Q2, Q3>>]
    /\ sample_size = 1
    /\ evals_db = <<>>
    /\ evals_file = <<>>
    /\ pc = "apply"
    /\ run_id \in RunIds
    /\ selected \in {<<q>> : q \in {Q1, Q2, Q3}}
    /\ i = 1
    /\ vals \in {<<v>> : v \in WideCorrections}
    /\ j = 1
    /\ mcq = NoMcq
    /\ q_results = <<>>
    /\ futures = <<>>
    /\ k = 0
    /\ results = <<>>
    /\ eval_doc = NoDoc
    /\ batch_log = <<[offset |-> 1, size |-> 1, status |-> "ok", nvals |-> 1]>>
    /\ q_log = <<NoLog>>
    /\ saved = <<>>
    /\ GenIdle
    /\ ViewIdle

NextEval ==
    \/ ApplyValidation
    \/ SubmitCalls
    \/ \E m \in 1..3 : CallModelWide(m)
    \/ CollectResult
    \/ ScoreQuestion
    \/ Finish

SpecEval == InitEval /\ [][NextEval]_vars

-----------------------------------------------------------------------------
(* eval_new2.py, the hybrid variant.  Its evaluate_question calls the       *)
(* roster one model after the other and keeps the accuracy of a block       *)
(* unrounded: the float num/den is kept as the record [num, den].           *)

OPENROUTER_MODELS ==
    << "mistralai/mistral-small-3.1-24b-instruct:free",
       "qwen/qwen2.5-vl-32b-instruct:free",
       "google/gemini-2.0-flash-exp:free",
       "nvidia/nemotron-nano-12b-v2-vl:free" >>

HF_MODELS ==
    << "google/gemma-3-27b-it:nebius",
       "Qwen/Qwen2.5-VL-7B-Instruct:hyperbolic",
       "baidu/ERNIE-4.5-VL-28B-A3B-PT:novita",
       "CohereLabs/command-a-vision-07-2025:cohere",
       "zai-org/GLM-4.1V-9B-Thinking:novita" >>

GEMINI_MODEL == "gemini-2.5-flash"

\* MCQ_COLLECTION of eval_new2.py
HYBRID_MCQ_COLLECTION == "questions"

\* how many models of each list the model keeps (the lists hold 4 and 5)
NumOpenRouter == 1

NumHF == 1

HybridRoster == Take(OPENROUTER_MODELS, NumOpenRouter) \o Take(HF_MODELS, NumHF)

HybridRunIds == {"run_hybrid_20250101_0000"}

\* load_mcqs of eval_new2.py: the lists it may return, the empty set when
\* it raises; outside db mode it returns []
hybrid_load_mcqs(md, smp, src, size) ==
    IF md = "db"
    THEN IF smp = "random"
         THEN IF size = 0 THEN {}
              ELSE Samples(src.questions, Min(size, Len(src.questions)))
         ELSE IF size = 0 THEN {SortById(src.questions)}
              ELSE {Take(SortById(src.questions), size)}
    ELSE {<<>>}

\* the corrections a validator array of the hybrid run may hold
HybridCorrections ==
    { [final_answer |-> "A", difficulty |-> "medium", shuffle |-> TRUE, issues |-> <<>>],
      [final_answer |-> "B", difficulty |-> "hard", shuffle |-> FALSE, issues |-> <<"unclear">>],
      [final_answer |-> Absent, difficulty |-> "easy", shuffle |-> FALSE, issues |-> <<>>] }

HybridValArrays == UNION {[1..n -> HybridCorrections] : n \in 1..MaxVals}

\* what generate_content may come back with: an exception, or a text
GeminiOutcomes ==
    { [kind |-> "exception", shape |-> "noarray", arr |-> <<>>],
      [kind |-> "ok", shape |-> "noarray", arr |-> <<>>],
      [kind |-> "ok", shape |-> "badjson", arr |-> <<>>] }
    \cup { [kind |-> "ok", shape |-> "array", arr |-> a] : a \in HybridValArrays }

\* gemini_validate_batch: the decoded array, [] when the text holds none
\* and [] when the call or json.loads raises
gemini_validate_batch(outcome) ==
    IF outcome.kind = "ok" /\ outcome.shape = "array" THEN outcome.arr ELSE <<>>

\* _call_openai_compatible_api: an exception is captured with time_ms 0
call_openai_compatible_api(outcome) ==
    IF outcome.kind = "ok"
    THEN [error |-> FALSE, content |-> outcome.body, time_ms |-> outcome.ms]
    ELSE [error |-> TRUE, content |-> outcome.body, time_ms |-> 0]

\* apply_validation of eval_new2.py on question q itself (run_test passes
\* no copy), f being the permutation the shuffle draws: [raised, q]
hybrid_apply_validation(q, val, f) ==
    LET orig_ans == q.answer.correct_ids[1]
        orig_diff == DifficultyOf(q)
        key1 == IF val.final_answer # orig_ans THEN <<val.final_answer>> ELSE q.answer.correct_ids
        diff1 == IF val.difficulty # orig_diff THEN val.difficulty ELSE q.difficulty
        choices1 == IF ShuffleApplied(val) THEN Shuffled(q.choices, f) ELSE q.choices
    IN  IF val.final_answer = Absent
        THEN [raised |-> TRUE, q |-> q]
        ELSE IF val.difficulty = Absent
        THEN [raised |-> TRUE, q |-> [q EXCEPT !.answer.correct_ids = key1]]
        ELSE [raised |-> FALSE,
              q |-> [q EXCEPT !.answer.correct_ids = key1,
                              !.difficulty = diff1,
                              !.choices = choices1,
                              !.validation =
                                  [validated_by |-> GEMINI_MODEL,
                                   original_answer |-> orig_ans,
                                   final_answer |-> val.final_answer,
                                   original_difficulty |-> orig_diff,
                                   final_difficulty |-> val.difficulty,
                                   shuffle_applied |-> ShuffleApplied(val),
                                   issues |-> val.issues]]]

\* the answer _process_result extracts: the letter after the marker or None
\* (there is no second search for an isolated letter)
MarkerAnswer(text) ==
    IF \E p \in 1..Len(text) : AnswerMatchAt(text, p)
    THEN LET p == CHOOSE x \in 1..Len(text) :
                      AnswerMatchAt(text, x) /\ \A y \in 1..(x - 1) : ~AnswerMatchAt(text, y)
         IN  Upper(text[SkipSpace(text, p + Len(ANSWER_MARKER))])
    ELSE Null

\* _process_result: the result appended for one call; an errored call gets
\* no answer key and time_ms 0
process_result(r, model_name, ground) ==
    IF r.error
    THEN [model |-> model_name, answer |-> Absent, correct |-> FALSE,
          reasoning |-> r.content, time_ms |-> 0]
    ELSE [model |-> model_name, answer |-> MarkerAnswer(r.content),
          correct |-> (MarkerAnswer(r.content) = ground),
          reasoning |-> extract_reasoning(r.content), time_ms |-> r.time_ms]

\* the block evaluate_question of eval_new2.py returns
HybridBlock(q, res) ==
    [original_mcq_ref |-> [problem_id |-> q.problem_id, collection |-> HYBRID_MCQ_COLLECTION],
     validation |-> q.validation,
     student_evaluations |-> res,
     question_stats |->
         IF res = <<>> THEN [accuracy |-> [num |-> 0, den |-> 1], avg_time_ms |-> 0]
         ELSE [accuracy |-> [num |-> NumCorrect(res), den |-> Len(res)],
               avg_time_ms |-> IntDiv(SumTimes(res), Len(res))]]

\* the document run_test of eval_new2.py builds
HybridDoc(rid, md, smp, nsel, blocks) ==
    [test_run_id |-> rid, mode |-> md, sampler |-> smp, batch_size |-> nsel,
     validation_model |-> GEMINI_MODEL, student_models |-> OPENROUTER_MODELS \o HF_MODELS,
     shuffle_enabled |-> SHUFFLE_CHOICES, questions |-> blocks,
     summary |->
         IF blocks = <<>> THEN [overall_accuracy |-> 0, avg_question_time_ms |-> 0]
         ELSE [overall_accuracy |->
                   RoundHalfEven(
                       1000 * SumSeq([x \in 1..Len(blocks) |->
                                         blocks[x].question_stats.accuracy.num]),
                       Len(HybridRoster) * Len(blocks)),
               avg_question_time_ms |->
                   IntDiv(SumSeq([x \in 1..Len(blocks) |->
                                     blocks[x].question_stats.avg_time_ms]),
                          Len(blocks))],
     error |-> Absent]

\* run_test lines 279-280
HLoadMcqs ==
    /\ pc = "start"
    /\ LET loaded == hybrid_load_mcqs(mode, sampler, source, sample_size)
         IN  IF loaded = {}
             THEN /\ pc' = "raised"
                  /\ UNCHANGED <<selected, run_id, i, q_log>>
             ELSE /\ \E sel \in loaded :
                        /\ selected' = sel
                        /\ q_log' = [x \in 1..Len(sel) |-> NoLog]
                  /\ \E rid \in HybridRunIds : run_id' = rid
                  /\ i' = 1
                  /\ pc' = "batch"
    /\ UNCHANGED <<gen_vars, view_vars, mode, sampler, roster, source, sample_size, evals_db, evals_file, vals, j, mcq,
                   q_results, futures, k, results, eval_doc, batch_log, saved>>

\* lines 284-290: the validator call of the batch at offset i; zip(batch,
\* vals) then pairs the questions with the corrections as far as both
\* reach.  vals keeps the corrections zip can pair (those beyond the batch
\* length are never read); batch_log keeps the length of the whole array.
HValidateBatch ==
    /\ pc = "batch"
    /\ i <= Len(selected)
    /\ \E outcome \in GeminiOutcomes :
         LET parsed == gemini_validate_batch(outcome)
         IN  /\ batch_log' = Append(batch_log,
                     [offset |-> i, size |-> Len(Batch), status |-> "called",
                      nvals |-> Len(parsed)])
             /\ vals' = Take(parsed, Len(Batch))
             /\ IF Min(Len(Batch), Len(parsed)) > 0
                THEN /\ j' = 1
                     /\ pc' = "apply"
                     /\ i' = i
                ELSE /\ i' = i + BATCH_SIZE
                     /\ UNCHANGED <<j, pc>>
    /\ UNCHANGED <<gen_vars, view_vars, mode, sampler, roster, source, sample_size, evals_db, evals_file, run_id, selected,
                   mcq, q_results, futures, k, results, eval_doc, q_log, saved>>

\* line 291: apply_validation on the question of the list itself
HApplyValidation ==
    /\ pc = "apply"
    /\ \E f \in Perms(Len(selected[Cur].choices)) :
         LET out == hybrid_apply_validation(selected[Cur], vals[j], f)
         IN  /\ selected' = [selected EXCEPT ![Cur] = out.q]
             /\ mcq' = [ref |-> Cur, problem_id |-> out.q.problem_id,
                        difficulty |-> out.q.difficulty, validation |-> out.q.validation]
             /\ pc' = IF out.raised THEN "raised" ELSE "evaluate"
    /\ q_log' = [q_log EXCEPT ![Cur].corrected = @ + 1]
    /\ UNCHANGED <<gen_vars, view_vars, mode, sampler, roster, source, sample_size, evals_db, evals_file, run_id, i, vals, j,
                   q_results, futures, k, results, eval_doc, batch_log, saved>>

\* evaluate_question lines 229-236: the next model of the roster is called
\* and its result processed; a None content makes re.search raise
HCallModel ==
    /\ pc = "evaluate"
    /\ Len(results) < Len(roster)
    /\ \E outcome \in StudentOutcomes :
         LET r == call_openai_compatible_api(outcome)
         IN  /\ q_log' = [q_log EXCEPT ![Cur].dispatched = @ + 1,
                                       ![Cur].errored = @ + (IF r.error THEN 1 ELSE 0)]
             /\ IF ~r.error /\ r.content = NullText
                THEN pc' = "raised" /\ UNCHANGED results
                ELSE /\ results' = Append(results,
                            process_result(r, roster[Len(results) + 1],
                                           selected[Cur].answer.correct_ids[1]))
                     /\ pc' = pc
    /\ UNCHANGED <<gen_vars, view_vars, mode, sampler, roster, source, sample_size, evals_db, evals_file, run_id, selected,
                   i, vals, j, mcq, q_results, futures, k, eval_doc, batch_log, saved>>

\* lines 238-255 and 292-293: the block is appended and the loop moves on to
\* the next pair of the zip or to the next batch
HScoreQuestion ==
    /\ pc = "evaluate"
    /\ Len(results) = Len(roster)
    /\ q_results' = Append(q_results, HybridBlock(selected[Cur], results))
    /\ q_log' = [q_log EXCEPT ![Cur].blocks = @ + 1]
    /\ results' = <<>>
    /\ mcq' = NoMcq
    /\ IF j < Min(Len(Batch), Len(vals))
       THEN /\ j' = j + 1
            /\ pc' = "apply"
            /\ UNCHANGED <<i, vals>>
       ELSE /\ j' = 0
            /\ vals' = <<>>
            /\ i' = i + BATCH_SIZE
            /\ pc' = "batch"
    /\ UNCHANGED <<gen_vars, view_vars, mode, sampler, roster, source, sample_size, evals_db, evals_file, run_id, selected,
                   futures, k, eval_doc, batch_log, saved>>

\* save_evaluation of eval_new2.py: only db mode stores anything
hybrid_save_evaluation(doc) ==
    /\ IF mode = "db"
       THEN evals_db' = SaveDb(evals_db, doc)
       ELSE UNCHANGED evals_db
    /\ UNCHANGED evals_file
    /\ saved' = Append(saved, doc)

\* lines 295-328: the summary, the document and its persistence
HFinish ==
    /\ pc = "batch"
    /\ i > Len(selected)
    /\ LET doc == HybridDoc(run_id, mode, sampler, Len(selected), q_results)
       IN  /\ eval_doc' = doc
           /\ hybrid_save_evaluation(doc)
    /\ pc' = "done"
    /\ UNCHANGED <<gen_vars, view_vars, mode, sampler, roster, source, sample_size, run_id, selected, i, vals, j, mcq,
                   q_results, futures, k, results, batch_log, q_log>>

InitHybrid ==
    /\ mode \in Modes
    /\ sampler \in Samplers
    /\ roster = HybridRoster
    /\ source \in {src \in Sources : src.exists}
    /\ sample_size \in 0..MaxSample
    /\ evals_db = <<>>
    /\ evals_file = <<>>
    /\ pc = "start"
    /\ run_id = Absent
    /\ selected = <<>>
    /\ i = 0
    /\ vals = <<>>
    /\ j = 0
    /\ mcq = NoMcq
    /\ q_results = <<>>
    /\ futures = <<>>
    /\ k = 0
    /\ results = <<>>
    /\ eval_doc = NoDoc
    /\ batch_log = <<>>
    /\ q_log = <<>>
    /\ saved = <<>>
    /\ GenIdle
    /\ ViewIdle

NextHybrid ==
    \/ HLoadMcqs
    \/ HValidateBatch
    \/ HApplyValidation
    \/ HCallModel
    \/ HScoreQuestion
    \/ HFinish

SpecHybrid == InitHybrid /\ [][NextHybrid]_vars

-----------------------------------------------------------------------------
(* save_evaluation of evaluator.py called over and over, as by runs that   *)
(* end one after the other and by a caller that saves a record again       *)

\* the most calls of save_evaluation the model follows
MaxSaves == 3

SaveRunIds == {"run_20250101_000000", "run_20250101_000001"}

\* a block as evaluate_question returns it for Q1 under the first correction
SampleBlock ==
    LET val == [final_answer |-> "A", difficulty |-> "medium", shuffle |-> FALSE, issues |-> <<>>]
        copy == [ref |-> 1, problem_id |-> Q1.problem_id, difficulty |-> Q1.difficulty,
                 validation |-> Q1.validation]
        m == apply_validation(copy, Q1, val, [x \in 1..2 |-> x]).mcq
    IN  Block(m, [x \in 1..Len(STUDENT_MODELS) |->
                     StudentResult(STUDENT_MODELS[x], call_model(HttpOk(TextAnswerA, 20)), "A")])

\* the records run_test may hand to save_evaluation in the given mode
SaveDocs(md) ==
    { EvalDoc(rid, md, "random", 1, STUDENT_MODELS, blocks) :
        rid \in SaveRunIds, blocks \in {<<>>, <<SampleBlock>>} }

SaveAgain ==
    /\ pc = "done"
    /\ Len(saved) < MaxSaves
    /\ \E doc \in SaveDocs(mode) :
          /\ save_evaluation(doc)
          /\ eval_doc' = doc
    /\ UNCHANGED <<gen_vars, view_vars, mode, sampler, roster, source, sample_size, pc, run_id, selected, i, vals, j, mcq,
                   q_results, futures, k, results, batch_log, q_log>>

InitSave ==
    /\ mode \in Modes
    /\ sampler = "random"
    /\ roster = STUDENT_MODELS
    /\ source = [exists |-> TRUE, questions |-> <<Q1, Q2, Q3>>]
    /\ sample_size = 1
    /\ evals_db = <<>>
    /\ evals_file = <<>>
    /\ pc = "done"
    /\ run_id = Absent
    /\ selected = <<>>
    /\ i = 0
    /\ vals = <<>>
    /\ j = 0
    /\ mcq = NoMcq
    /\ q_results = <<>>
    /\ futures = <<>>
    /\ k = 0
    /\ results = <<>>
    /\ eval_doc = NoDoc
    /\ batch_log = <<>>
    /\ q_log = <<>>
    /\ saved = <<>>
    /\ GenIdle
    /\ ViewIdle

NextSave == SaveAgain

SpecSave == InitSave /\ [][NextSave]_vars

-----------------------------------------------------------------------------
(* load_mcqs of evaluator.py on sources of every size and order *)

\* the sources of at most three distinct questions, in any order, and the
\* missing source
LoadSources ==
    { [exists |-> FALSE, questions |-> <<>>] }
    \cup { [exists |-> TRUE, questions |-> qs] :
             qs \in UNION { Samples(<<Q1, Q2, Q3>>, n) : n \in 0..3 } }

InitLoad ==
    /\ mode \in Modes
    /\ sampler \in Samplers
    /\ roster = STUDENT_MODELS
    /\ source \in LoadSources
    /\ sample_size \in 0..MaxSample
    /\ evals_db = <<>>
    /\ evals_file = <<>>
    /\ pc = "start"
    /\ run_id = Absent
    /\ selected = <<>>
    /\ i = 0
    /\ vals = <<>>
    /\ j = 0
    /\ mcq = NoMcq
    /\ q_results = <<>>
    /\ futures = <<>>
    /\ k = 0
    /\ results = <<>>
    /\ eval_doc = NoDoc
    /\ batch_log = <<>>
    /\ q_log = <<>>
    /\ saved = <<>>
    /\ GenIdle
    /\ ViewIdle

NextLoad == LoadMcqs

SpecLoad == InitLoad /\ [][NextLoad]_vars

-----------------------------------------------------------------------------
(* run_test of evaluator.py invoked again and again on one evaluator while  *)
(* the validator is down, the clock showing one of two consecutive seconds  *)

\* the most invocations of run_test the model follows
MaxRuns == 2

\* the run ids of two consecutive seconds, in the order of the clock
ClockIds == <<"run_20250101_000000", "run_20250101_000001">>

ClockRank(rid) == CHOOSE x \in 1..Len(ClockIds) : ClockIds[x] = rid

\* the ids the clock can give now: time does not run backwards
NowIds ==
    { ClockIds[x] : x \in { y \in 1..Len(ClockIds) :
          \A z \in 1..Len(saved) : ClockRank(saved[z].test_run_id) <= y } }

DownOutcomes == { HttpFail("500", TextTimeout, 40), NetException(TextTimeout, 90) }

LoadMcqsNow == LoadMcqsAt(NowIds)

ValidateBatchDown == ValidateBatchFrom(DownOutcomes)

\* run_test has returned or raised, and is called again: its locals start
\* afresh, the stores stay
Restart ==
    /\ pc \in {"done", "raised"}
    /\ Len(saved) < MaxRuns
    /\ pc' = "start"
    /\ \E n \in 0..MaxSample : sample_size' = n
    /\ run_id' = Absent
    /\ selected' = <<>>
    /\ i' = 0
    /\ eval_doc' = NoDoc
    /\ batch_log' = <<>>
    /\ q_log' = <<>>
    /\ UNCHANGED <<gen_vars, view_vars, mode, sampler, roster, source, evals_db, evals_file, vals, j, mcq,
                   q_results, futures, k, results, saved>>

InitRuns ==
    /\ mode \in Modes
    /\ sampler \in Samplers
    /\ roster = STUDENT_MODELS
    /\ source = [exists |-> TRUE, questions |-> <<Q1, Q2, Q3>>]
    /\ sample_size \in 0..MaxSample
    /\ evals_db = <<>>
    /\ evals_file = <<>>
    /\ pc = "start"
    /\ run_id = Absent
    /\ selected = <<>>
    /\ i = 0
    /\ vals = <<>>
    /\ j = 0
    /\ mcq = NoMcq
    /\ q_results = <<>>
    /\ futures = <<>>
    /\ k = 0
    /\ results = <<>>
    /\ eval_doc = NoDoc
    /\ batch_log = <<>>
    /\ q_log = <<>>
    /\ saved = <<>>
    /\ GenIdle
    /\ ViewIdle

NextRuns ==
    \/ LoadMcqsNow
    \/ ValidateBatchDown
    \/ Finish
    \/ Restart

SpecRuns == InitRuns /\ [][NextRuns]_vars

-----------------------------------------------------------------------------
(* Claims about evaluate_question *)

BlockResults(b) == {b.student_evaluations[x] : x \in 1..Len(b.student_evaluations)}

Abs(n) == IF n < 0 THEN -n ELSE n

\* C1: every stored student result whose call returned content has
\* correct = (extracted answer = the block's validation.final_answer); a
\* result whose answer is null or outside A-D, or whose call errored, has
\* correct = FALSE.
C1_CorrectIsAnswerEquality ==
    /\ \A b \in 1..Len(q_results) : \A r \in BlockResults(q_results[b]) :
          r.answer \notin Range(ANSWER_LETTERS) => ~r.correct
    /\ \A x \in 1..Len(results) :
          /\ ~futures[x].error =>
                results[x].correct = (results[x].answer = mcq.validation.final_answer)
          /\ results[x].answer \notin Range(ANSWER_LETTERS) => ~results[x].correct
          /\ futures[x].error => ~results[x].correct

\* C8 as stated, for a final answer that is one of A-D: a block's accuracy
\* is exactly (results whose answer equals the final answer) / (roster size),
\* 1/3 for one hit among three.
C8_AccuracyIsExactFraction ==
    \A b \in 1..Len(q_results) :
        LET blk == q_results[b]
            hits == Cardinality({x \in 1..Len(blk.student_evaluations) :
                        blk.student_evaluations[x].answer = blk.validation.final_answer})
        IN  blk.validation.final_answer \in Range(ANSWER_LETTERS)
                => blk.question_stats.accuracy * Len(roster) = 1000 * hits

\* C8 as amended: a block holds one result per roster member, its accuracy
\* is (results stored as correct) / (roster size) rounded to three decimals
\* (0.333 for one of three), and an errored call stays in the denominator and
\* is never among the correct ones.
C8_AccuracyIsRoundedFraction ==
    \A b \in 1..Len(q_results) :
        LET blk == q_results[b]
            hits == Cardinality({x \in 1..Len(blk.student_evaluations) :
                        blk.student_evaluations[x].correct})
        IN  /\ Len(blk.student_evaluations) = Len(roster)
            /\ 2 * Abs(blk.question_stats.accuracy * Len(roster) - 1000 * hits) <= Len(roster)
            /\ hits + q_log[b].errored <= Len(roster)

\* C8 witness: three models, one errored, one correct, one wrong: 0.333
C8_Witness ==
    /\ Len(q_results) = 1
    /\ Len(roster) = 3
    /\ q_log[1].errored = 1
    /\ Cardinality({x \in 1..3 : q_results[1].student_evaluations[x].correct}) = 1
    /\ \E x \in 1..3 : q_results[1].student_evaluations[x].answer = "B"
    /\ q_results[1].validation.final_answer = "A"
    /\ q_results[1].question_stats.accuracy = 333

-----------------------------------------------------------------------------
(* Claims about run_test *)

\* the question of the source with the given problem_id, as it was loaded
Original(pid) ==
    source.questions[CHOOSE x \in 1..Len(source.questions) :
                         source.questions[x].problem_id = pid]

SumAccuracy(blocks) ==
    SumSeq([x \in 1..Len(blocks) |-> blocks[x].question_stats.accuracy])

\* C2 as stated: the overall_accuracy of a run record is exactly the mean of
\* the accuracies of its blocks, and 0 without blocks.
C2_OverallIsExactMean ==
    pc = "done" =>
        LET n == Len(eval_doc.questions)
        IN  IF n = 0 THEN eval_doc.summary.overall_accuracy = 0
            ELSE eval_doc.summary.overall_accuracy * n = SumAccuracy(eval_doc.questions)

\* C2 as amended: the overall_accuracy of a run record is the unweighted mean
\* of the accuracies of its blocks rounded to three decimals (at most 0.0005
\* away from the mean), and 0 without blocks.
C2_OverallIsRoundedMean ==
    pc = "done" =>
        LET n == Len(eval_doc.questions)
        IN  IF n = 0 THEN eval_doc.summary.overall_accuracy = 0
            ELSE 2 * Abs(eval_doc.summary.overall_accuracy * n
                         - SumAccuracy(eval_doc.questions)) <= n

\* C2 witness: three blocks of accuracy 0.5, 0 and 0 in some order, stored
\* with overall_accuracy 0.167
C2_Witness ==
    /\ pc = "done"
    /\ Len(eval_doc.questions) = 3
    /\ SumAccuracy(eval_doc.questions) = 500
    /\ eval_doc.summary.overall_accuracy = 167

\* C3: when the validator call of a batch succeeded but the number of parsed
\* corrections differs from the batch length (zero after a parse failure
\* included), no question of the batch is corrected, none is sent to a
\* student model, and the batch adds no block.
C3_MismatchDiscardsBatch ==
    \A b \in 1..Len(batch_log) :
        (batch_log[b].status \notin {"error", "raised"}
            /\ batch_log[b].nvals # batch_log[b].size) =>
            \A x \in batch_log[b].offset..(batch_log[b].offset + batch_log[b].size - 1) :
                q_log[x] = NoLog

\* C3 witness: a run of one batch of 2 that got 1 correction ends with a
\* record of 0 blocks
C3_Witness ==
    /\ pc = "done"
    /\ Len(selected) = 2
    /\ Len(batch_log) = 1
    /\ batch_log[1].status = "mismatch"
    /\ batch_log[1].size = 2
    /\ batch_log[1].nvals = 1
    /\ eval_doc.questions = <<>>

\* the state right after apply_validation shuffled the question at Cur
JustShuffled == pc = "evaluate" /\ mcq.validation.shuffle_applied

\* C5: after a shuffle, whatever the permutation, the answer key names a
\* choice whose text is the text of the choice the correction's final_answer
\* named before the shuffle.
C5_ShuffleKeepsKeyOnText ==
    JustShuffled =>
        LET before == Original(mcq.problem_id).choices
            after == selected[Cur]
        IN  TextOfId(before, mcq.validation.final_answer) # Null =>
                TextOfId(after.choices, after.answer.correct_ids[1])
                    = TextOfId(before, mcq.validation.final_answer)

\* C5 witness: a shuffle that moved the choices and, the two texts being
\* equal, moved the key to another id
C5_Witness ==
    /\ JustShuffled
    /\ selected[Cur].choices # Original(mcq.problem_id).choices
    /\ selected[Cur].answer.correct_ids[1] # mcq.validation.final_answer
    /\ TextOfId(selected[Cur].choices, selected[Cur].answer.correct_ids[1])
           = TextOfId(Original(mcq.problem_id).choices, mcq.validation.final_answer)

\* the example of C6: choices [{A,x},{B,y}], correction {final_answer: A,
\* shuffle: true}, and the permutation that swaps the two
SwapExample ==
    /\ JustShuffled
    /\ mcq.problem_id = Q1.problem_id
    /\ mcq.validation.final_answer = "A"
    /\ selected[Cur].choices # Q1.choices

C9_OneResultPerModelNoAbort ==
    /\ \A b \in 1..Len(q_results) :
          /\ Len(q_results[b].student_evaluations) = Len(roster)
          /\ \A x \in 1..Len(roster) : q_results[b].student_evaluations[x].model = roster[x]
    /\ \A x \in 1..Len(results) :
          futures[x].error =>
              /\ ~results[x].correct
              /\ results[x].answer = Null
              /\ results[x].reasoning = futures[x].content
    /\ pc = "raised" => futures = <<>>

\* C10 as stated: once load_mcqs has returned, a run none of whose
\* batches passed validation (or that has no batch) does not raise, can
\* always take its next step until it is done, and ends by persisting, in
\* the store of its mode, one record with its run id, an empty questions
\* list, a summary of overall_accuracy 0 and avg_question_time_ms 0, and the
\* error note.
C10_AllFailedStillPersists ==
    (run_id # Absent /\ \A b \in 1..Len(batch_log) : batch_log[b].status # "ok") =>
        /\ pc \in {"batch", "done"}
        /\ q_results = <<>>
        /\ pc = "batch" => ENABLED (ValidateBatch \/ Finish)
        /\ pc = "done" =>
              /\ eval_doc.test_run_id = run_id
              /\ eval_doc.questions = <<>>
              /\ eval_doc.summary = [overall_accuracy |-> 0, avg_question_time_ms |-> 0]
              /\ eval_doc.error = TextAllFailed
              /\ eval_doc.batch_size = Len(selected)
              /\ saved = <<eval_doc>>
              /\ IF mode = "db" THEN evals_db = <<eval_doc>> /\ evals_file = <<>>
                                ELSE evals_file = <<eval_doc>> /\ evals_db = <<>>

-----------------------------------------------------------------------------
(* Claims about the hybrid run_test and about save_evaluation *)

\* C4 as stated: in the hybrid run_test a correction array whose length
\* differs from the batch length voids the batch: none of its questions is
\* corrected, none is evaluated, none gets a block.
C4_HybridMismatchVoidsBatch ==
    \A b \in 1..Len(batch_log) :
        batch_log[b].nvals # batch_log[b].size =>
            \A x \in batch_log[b].offset..(batch_log[b].offset + batch_log[b].size - 1) :
                q_log[x] = NoLog

\* the records of the store of the current mode
Stored == IF mode = "db" THEN evals_db ELSE evals_file

\* C7 as stated: after save_evaluation was called twice with records of
\* the same run identifier and the same payload, the store of either mode
\* holds exactly one record for that identifier.
C7_SaveTwiceKeepsOne ==
    (Len(saved) = 2 /\ saved[1] = saved[2]) =>
        Cardinality({x \in 1..Len(Stored) :
                        Stored[x].test_run_id = saved[1].test_run_id}) = 1

-----------------------------------------------------------------------------
(* Claims about loading and about failures *)

\* C11 as stated: when the question source is missing or holds no question,
\* in file mode and in store mode, the run fails at load_mcqs: no run id is
\* taken, no validator or student call is made, and no record is persisted.
C11_EmptySourceFailsAtLoad ==
    (source.questions = <<>> /\ pc # "start") =>
        /\ pc = "raised"
        /\ run_id = Absent
        /\ batch_log = <<>>
        /\ saved = <<>>
    /\ GenIdle
    /\ ViewIdle
        /\ evals_db = <<>>
        /\ evals_file = <<>>

\* C12 as stated: once load_mcqs has returned, run_test never raises,
\* whatever the validator and the student models answer, and a finished run
\* has persisted its record.
C12_NeverRaisesAfterLoad ==
    run_id # Absent =>
        /\ pc # "raised"
        /\ pc = "done" => (saved = <<eval_doc>> /\ Stored = <<eval_doc>>)

\* C13 as stated: with the sequential sampler, in file mode and in store
\* mode, load_mcqs returns at most sample_size records, namely the first
\* sample_size records of the source in ascending problem_id order.
C13_SequentialIsSortedPrefix ==
    (sampler = "sequential" /\ pc = "batch") =>
        /\ Len(selected) <= sample_size
        /\ selected = Take(SortById(source.questions), sample_size)

-----------------------------------------------------------------------------
(* Claims about the order of the steps of a run *)

\* the audit record carries the answer, the difficulty and the issues of
\* the correction
Carries(validation, val) ==
    /\ validation.final_answer = val.final_answer
    /\ validation.final_difficulty = val.difficulty
    /\ validation.issues = val.issues

\* the run is inside a validated batch, at its j-th question
InBatch == j >= 1 /\ pc \in {"apply", "evaluate", "collect", "raised"}

\* C14: in a batch that passed validation the corrections pair with the
\* questions by position: the array is as long as the batch, the block of
\* the y-th question of the batch names that question and carries the y-th
\* correction, and so does the copy being evaluated.
C14_CorrectionsMatchedByPosition ==
    InBatch =>
        /\ Len(vals) = Len(Batch)
        /\ \A y \in 1..(j - 1) :
              LET blk == q_results[Len(q_results) - (j - 1) + y]
              IN  /\ blk.original_mcq_ref.problem_id = selected[i + y - 1].problem_id
                  /\ Carries(blk.validation, vals[y])
        /\ pc \in {"evaluate", "collect"} =>
              /\ mcq.ref = Cur
              /\ mcq.problem_id = selected[Cur].problem_id
              /\ Carries(mcq.validation, vals[j])

\* C14 witness: the second question of a batch is being evaluated under the
\* second correction, the first having got its block under the first one
C14_Witness ==
    /\ pc = "collect"
    /\ j = 2
    /\ vals[1].final_answer # vals[2].final_answer
    /\ q_results[Len(q_results)].validation.final_answer = vals[1].final_answer
    /\ mcq.validation.final_answer = vals[2].final_answer

\* C15 as stated: correcting and evaluating a question leaves the record in
\* the selected list as it was loaded: same choice order, same
\* answer.correct_ids, same difficulty, no validation stamped.
C15_SelectedQuestionUntouched ==
    \A x \in 1..Len(selected) :
        LET loaded == Original(selected[x].problem_id)
        IN  /\ selected[x].choices = loaded.choices
            /\ selected[x].answer = loaded.answer
            /\ selected[x].difficulty = loaded.difficulty
            /\ selected[x].validation = NoValidation

\* C16 as stated: any two invocations of run_test get distinct run ids,
\* and every persisted record stays stored under an id no other invocation
\* used.
C16_RunIdsDistinct ==
    /\ \A x, y \in 1..Len(saved) :
          x # y => saved[x].test_run_id # saved[y].test_run_id
    /\ pc = "batch" => \A x \in 1..Len(saved) : saved[x].test_run_id # run_id
    /\ Len(Stored) = Len(saved)

\* what is known of the calls of the question being evaluated: every
\* collected result comes from a call that has returned
ResultsFromSettledCalls ==
    \A x \in 1..Len(results) :
        /\ futures[x].done
        /\ results[x].model = roster[x]
        /\ results[x].time_ms = futures[x].time_ms

\* the statistics of a block are those of one result per roster model
StatsOverWholeRoster(blk) ==
    LET res == blk.student_evaluations
        n == Len(roster)
        hits == Cardinality({x \in 1..Len(res) : res[x].correct})
        total == SumSeq([x \in 1..Len(res) |-> res[x].time_ms])
    IN  /\ Len(res) = n
        /\ \A x \in 1..n : res[x].model = roster[x]
        /\ 2 * Abs(blk.question_stats.accuracy * n - 1000 * hits) <= n
        /\ blk.question_stats.avg_time_ms * n <= total
        /\ total < (blk.question_stats.avg_time_ms + 1) * n

\* C17: under every interleaving of the concurrent calls, a result is taken
\* only from a call that has returned, a block is appended only when every
\* roster member's call has returned and been collected, and its accuracy
\* and average latency are those of the complete set of roster results.
C17_ScoredAfterAllSettled ==
    /\ [](ResultsFromSettledCalls
          /\ \A b \in 1..Len(q_results) : StatsOverWholeRoster(q_results[b]))
    /\ [][Len(q_results') > Len(q_results) =>
              /\ \A m \in 1..Len(roster) : futures[m].done
              /\ Len(results) = Len(roster)
              /\ q_results'[Len(q_results')].student_evaluations = results]_vars

\* C17 witness: a block over three calls that took 20, 5 and 90 ms, the
\* last two failed, with average latency int(115 / 3) = 38
C17_Witness ==
    /\ Len(q_results) = 1
    /\ Len(roster) = 3
    /\ q_results[1].student_evaluations[1].time_ms = 20
    /\ q_results[1].student_evaluations[2].time_ms = 5
    /\ q_results[1].student_evaluations[3].time_ms = 90
    /\ q_results[1].question_stats.avg_time_ms = 38

\* the selected question at index x belongs to a batch that passed validation
InOkBatch(x) ==
    \E b \in 1..Len(batch_log) :
        /\ batch_log[b].status = "ok"
        /\ batch_log[b].offset <= x
        /\ x < batch_log[b].offset + batch_log[b].size

\* the problem ids of the questions of the validated batches, in the order
\* of selection
ValidatedIds ==
    LET pos == SelectSeq([x \in 1..Len(selected) |-> x], InOkBatch)
    IN  [y \in 1..Len(pos) |-> selected[pos[y]].problem_id]

\* C18 as stated: the questions list of a run record holds exactly one block
\* per question of the batches that passed validation, none for a failed
\* batch, in the order of selection; and after a batch that failed (its call
\* errored, or nothing of the batch length was parsed) the run goes on to
\* the next batch or to its record.
C18_BlocksFollowValidatedBatches ==
    /\ pc = "done" =>
          /\ Len(eval_doc.questions) = Len(ValidatedIds)
          /\ \A y \in 1..Len(ValidatedIds) :
                eval_doc.questions[y].original_mcq_ref.problem_id = ValidatedIds[y]
    /\ (batch_log # <<>> /\ batch_log[Len(batch_log)].status # "ok") =>
          pc \in {"batch", "done"}

\* the history of one selected question is a prefix of: corrected once,
\* sent once to every roster model, scored once; and only a question of a
\* batch that passed validation is ever corrected
QuestionInOrder(x) ==
    /\ q_log[x].corrected <= 1
    /\ q_log[x].blocks <= 1
    /\ q_log[x].dispatched \in {0, Len(roster)}
    /\ q_log[x].errored <= q_log[x].dispatched
    /\ q_log[x].corrected = 1 => InOkBatch(x)
    /\ q_log[x].dispatched > 0 => q_log[x].corrected = 1
    /\ q_log[x].blocks = 1 => q_log[x].dispatched = Len(roster)

\* between two batches no student call is outstanding and every question
\* of the validated batches so far has been scored
QuietBetweenBatches ==
    pc = "batch" =>
        /\ futures = <<>>
        /\ \A x \in 1..Len(q_log) :
              /\ x >= i => q_log[x] = NoLog
              /\ (x < i /\ InOkBatch(x)) => q_log[x].blocks = 1

\* C19: every question goes unvalidated, corrected, scored in that order and
\* at most once; student calls are sent only for a question whose batch was
\* validated and whose correction was applied; a question is scored only
\* when all its calls have returned; and the validator is called for a
\* batch only when no call of an earlier batch is outstanding.
C19_StepsInOrder ==
    /\ []((\A x \in 1..Len(q_log) : QuestionInOrder(x)) /\ QuietBetweenBatches)
    /\ [][batch_log' # batch_log =>
              /\ futures = <<>>
              /\ \A x \in 1..Len(q_log) : q_log[x].dispatched > 0 => q_log[x].blocks = 1]_vars
    /\ [][(\E x \in 1..Len(q_log) : q_log'[x].blocks > q_log[x].blocks) =>
              \A m \in 1..Len(roster) : futures[m].done]_vars

\* C19 witness: the question of the second batch has been corrected and
\* sent to the roster after both questions of the first batch were scored
C19_Witness ==
    /\ pc = "collect"
    /\ Len(selected) = 3
    /\ Len(batch_log) = 2
    /\ batch_log[2].status = "ok"
    /\ q_log[1].blocks = 1
    /\ q_log[2].blocks = 1
    /\ q_log[3].corrected = 1
    /\ q_log[3].dispatched = Len(roster)
    /\ q_log[3].blocks = 0

\* C20: no call is made twice.  The validator calls of a run are one per
\* batch, in the order of the offsets, whatever they returned; a question
\* is sent to each roster model once; and a call that has returned, with
\* content or with a captured error, is never made again.
C20_NoCallRepeated ==
    /\ [](/\ \A b \in 1..Len(batch_log) : batch_log[b].offset = 1 + (b - 1) * BATCH_SIZE
          /\ \A b \in 1..Len(batch_log) : batch_log[b].offset <= Len(selected)
          /\ pc = "done" => Len(selected) <= Len(batch_log) * BATCH_SIZE
          /\ \A x \in 1..Len(q_log) :
                /\ q_log[x].dispatched <= Len(roster)
                /\ q_log[x].errored <= Len(roster)
                /\ q_log[x].blocks = 1 => q_log[x].dispatched = Len(roster))
    /\ [][\A m \in DOMAIN futures \cap DOMAIN futures' :
              futures[m].done => futures'[m] = futures[m]]_vars

\* C20 witness: a finished run of three questions whose first validator
\* call failed and whose last question was refused by every student model;
\* two validator calls were made in all
C20_Witness ==
    /\ pc = "done"
    /\ Len(selected) = 3
    /\ Len(batch_log) = 2
    /\ batch_log[1].status = "error"
    /\ batch_log[2].status = "ok"
    /\ q_log[3].dispatched = Len(roster)
    /\ q_log[3].errored = Len(roster)
    /\ q_log[3].blocks = 1

-----------------------------------------------------------------------------
(* Claims about the audit record, the latency and the text extraction *)

\* C21: when apply_validation returns, the question it returns carries an
\* audit record: original_answer is the key and original_difficulty the
\* difficulty ("unknown" when none is recorded) the question had when the
\* call began, final_answer, final_difficulty and issues are those of the
\* correction, and shuffle_applied is true exactly when shuffling is enabled
\* and the correction asks for it.  The record is there in every question
\* under evaluation and is the one its block stores.
C21_AuditRecordStamped ==
    /\ [](pc \in {"evaluate", "collect"} =>
              /\ mcq.validation # NoValidation
              /\ mcq.validation.validated_by # Absent
              /\ Carries(mcq.validation, CorrectionFor(vals, j))
              /\ mcq.validation.shuffle_applied =
                     (SHUFFLE_CHOICES /\ CorrectionFor(vals, j).shuffle))
    /\ [][(pc = "apply" /\ pc' = "evaluate") =>
              /\ mcq'.validation.original_answer = selected[Cur].answer.correct_ids[1]
              /\ mcq'.validation.original_difficulty =
                     (IF selected[Cur].difficulty = Absent
                      THEN "unknown" ELSE selected[Cur].difficulty)]_vars
    /\ [][(pc = "collect" /\ Len(q_results') > Len(q_results)) =>
              q_results'[Len(q_results')].validation = mcq.validation]_vars

\* C21 witness: a question with no difficulty recorded is under evaluation
\* after a correction that reported an issue and asked for no shuffle
C21_Witness ==
    /\ pc = "collect"
    /\ selected[Cur].difficulty = Absent
    /\ mcq.validation.original_difficulty = "unknown"
    /\ mcq.validation.shuffle_applied = FALSE
    /\ mcq.validation.final_difficulty = "hard"
    /\ mcq.validation.issues # <<>>

\* the elapsed times of the calls that end in an error, as the network
\* layer measured them
ErroredElapsed ==
    {outcome.ms : outcome \in {x \in StudentOutcomes : call_openai_compatible_api(x).error}}

\* C22 as stated, for the blocks of eval_new2.py: the average latency of a
\* block is the mean (cut to an integer) of the times of all the results of
\* its roster, and the time of a result of an errored call is the elapsed
\* time of that call, not zero.
C22_ErroredCallsKeepElapsed ==
    \A b \in 1..Len(q_results) :
        LET res == q_results[b].student_evaluations
        IN  /\ Len(res) = Len(roster)
            /\ q_results[b].question_stats.avg_time_ms = IntDiv(SumTimes(res), Len(res))
            /\ \A x \in 1..Len(res) :
                  res[x].answer = Absent => res[x].time_ms \in ErroredElapsed

-----------------------------------------------------------------------------
(* extract_answer and extract_reasoning on a wide set of response texts:   *)
(* the state of evaluate_question once both calls of the roster have       *)
(* returned, the first with a text put together from up to MaxTokens       *)
(* pieces.                                                                  *)

MaxTokens == 3

TextLowerMarker == <<"a","n","s","w","e","r",":">>

\* FALLBACK_WINDOW characters that are neither letters nor white space
TextPad == [x \in 1..FALLBACK_WINDOW |-> "."]

TextTokens ==
    {ANSWER_MARKER, TextLowerMarker, <<" ">>, <<"B">>, <<"c">>, <<"D">>, <<"E">>, TextPad}

RECURSIVE Concat(_)
Concat(ts) == IF ts = <<>> THEN Str0 ELSE Head(ts) \o Concat(Tail(ts))

ResponseTexts == {Concat(ts) : ts \in UNION {[1..n -> TextTokens] : n \in 1..MaxTokens}}

\* a server error page and an exception message of REASONING_LIMIT characters
TextLongBody == [x \in 1..REASONING_LIMIT |-> "b"]

TextLongError == [x \in 1..REASONING_LIMIT |-> "e"]

\* what the network gives back for the second call of the roster
SecondOutcomes ==
    { HttpOk(TextAnswerA, 20), HttpFail("500", TextLongBody, 5), NetException(TextLongError, 90) }

InitText ==
    /\ mode = "test"
    /\ sampler = "sequential"
    /\ roster = STUDENT_MODELS
    /\ source = [exists |-> TRUE, questions |-> <<Q1, Q2, Q3>>]
    /\ sample_size = 1
    /\ evals_db = <<>>
    /\ evals_file = <<>>
    /\ pc = "collect"
    /\ run_id \in RunIds
    /\ selected = <<Q1>>
    /\ i = 1
    /\ vals \in {<<v>> : v \in {x \in ValCorrections : ~x.shuffle /\ x.final_answer # Absent
                                                      /\ x.difficulty # Absent}}
    /\ j = 1
    /\ mcq = apply_validation([ref |-> 1, problem_id |-> Q1.problem_id,
                               difficulty |-> Q1.difficulty, validation |-> Q1.validation],
                              Q1, vals[1], [x \in 1..2 |-> x]).mcq
    /\ q_results = <<>>
    /\ \E text \in ResponseTexts, outcome \in SecondOutcomes :
          LET r == call_model(outcome)
          IN  /\ futures =
                     << [done |-> TRUE, error |-> FALSE, content |-> text, time_ms |-> 20],
                        [done |-> TRUE, error |-> r.error, content |-> r.content,
                         time_ms |-> r.time_ms] >>
              /\ q_log = <<[corrected |-> 1, dispatched |-> 2,
                            errored |-> IF r.error THEN 1 ELSE 0, blocks |-> 0]>>
    /\ k = 1
    /\ results = <<>>
    /\ eval_doc = NoDoc
    /\ batch_log = <<[offset |-> 1, size |-> 1, status |-> "ok", nvals |-> 1]>>
    /\ saved = <<>>
    /\ GenIdle
    /\ ViewIdle

NextText ==
    \/ CollectResult
    \/ ScoreQuestion
    \/ Finish

SpecText == InitText /\ [][NextText]_vars

\* the letter that stands after the first "ANSWER:" marker of the text that
\* is followed, white space apart, by a letter of A-D in either case
FirstMarkedLetter(text) ==
    LET p == CHOOSE x \in 1..Len(text) :
                 /\ MarkerAt(text, x, ANSWER_MARKER)
                 /\ SkipSpace(text, x + 7) <= Len(text)
                 /\ Upper(text[SkipSpace(text, x + 7)]) \in {"A", "B", "C", "D"}
                 /\ \A y \in 1..(x - 1) :
                       ~(/\ MarkerAt(text, y, ANSWER_MARKER)
                         /\ SkipSpace(text, y + 7) <= Len(text)
                         /\ Upper(text[SkipSpace(text, y + 7)]) \in {"A", "B", "C", "D"})
    IN  Upper(text[SkipSpace(text, p + 7)])

HasMarkedLetter(text) ==
    \E x \in 1..Len(text) :
        /\ MarkerAt(text, x, ANSWER_MARKER)
        /\ SkipSpace(text, x + 7) <= Len(text)
        /\ Upper(text[SkipSpace(text, x + 7)]) \in {"A", "B", "C", "D"}

\* the letters of A-D that stand alone within the first 120 characters
IsolatedLetters(text) ==
    {l \in {"A", "B", "C", "D"} : IsolatedIn(SubSeq(text, 1, Min(120, Len(text))), l)}

\* C23: the answer extract_answer gives for a response text is the
\* upper-cased letter after the first "ANSWER:" marker (in either case) that
\* a letter of A-D follows, whatever letters stand elsewhere; without such a
\* marker it is a letter of A-D standing alone within the first 120
\* characters; without that it is null.  It is always A, B, C, D or null.
C23_AnswerExtraction ==
    \A x \in 1..Len(results) :
        LET text == futures[x].content
            answer == results[x].answer
        IN  /\ answer \in {"A", "B", "C", "D", Null}
            /\ HasMarkedLetter(text) => answer = FirstMarkedLetter(text)
            /\ (~HasMarkedLetter(text) /\ IsolatedLetters(text) # {}) =>
                   answer \in IsolatedLetters(text)
            /\ (~HasMarkedLetter(text) /\ IsolatedLetters(text) = {}) => answer = Null

\* C23 witness: a text with a B standing alone before a lower-case marker
\* that a lower-case c follows gave C
C23_Witness ==
    /\ Len(results) >= 1
    /\ futures[1].content = <<"B">> \o TextLowerMarker \o <<"c">>
    /\ results[1].answer = "C"

\* C24 as stated: the rationale of every student result, of the question
\* under evaluation and of every block, holds at most 500 characters,
\* whether its call succeeded or ended in an error.
C24_RationaleAtMost500 ==
    /\ \A x \in 1..Len(results) : Len(results[x].reasoning) <= REASONING_LIMIT
    /\ \A b \in 1..Len(q_results) :
          \A x \in 1..Len(q_results[b].student_evaluations) :
              Len(q_results[b].student_evaluations[x].reasoning) <= REASONING_LIMIT

-----------------------------------------------------------------------------
(* Claims about the store, the roster order and the shuffle *)

\* C25 as stated: in store mode, once two records were persisted one after
\* the other under the same run identifier, the store holds exactly one
\* record for it and that record is the one of the later writer, with no
\* field of the earlier one left in it.
C25_LastWriterWins ==
    (/\ mode = "db"
     /\ Len(saved) >= 2
     /\ saved[Len(saved) - 1].test_run_id = saved[Len(saved)].test_run_id) =>
        /\ Cardinality({x \in 1..Len(evals_db) :
                           evals_db[x].test_run_id = saved[Len(saved)].test_run_id}) = 1
        /\ \A x \in 1..Len(evals_db) :
              evals_db[x].test_run_id = saved[Len(saved)].test_run_id =>
                  evals_db[x] = saved[Len(saved)]

-----------------------------------------------------------------------------
(* dataset/exp.py: run_generation.  Each selected image gets one request   *)
(* for new questions; the keys of the questions parsed from the answers    *)
(* are collected in all_mcqs until the target is reached.                  *)

NUM_BASELINES == 3

MaxPool == 4

MaxTarget == 3

MaxParsed == 2

ImageNames == <<"img1.png", "img2.png", "img3.png", "img4.png">>

\* the evaluator is not running
RunIdle ==
    /\ mode = "test"
    /\ sampler = "sequential"
    /\ roster = STUDENT_MODELS
    /\ source = [exists |-> FALSE, questions |-> <<>>]
    /\ sample_size = 0
    /\ evals_file = <<>>
    /\ run_id = Absent
    /\ selected = <<>>
    /\ i = 0
    /\ vals = <<>>
    /\ j = 0
    /\ mcq = NoMcq
    /\ q_results = <<>>
    /\ futures = <<>>
    /\ k = 0
    /\ results = <<>>
    /\ eval_doc = NoDoc
    /\ batch_log = <<>>
    /\ q_log = <<>>

\* what generate_content may come back with: an exception, or a text that
\* holds a number of question objects
GenOutcomes ==
    { [kind |-> "exception", mcqs |-> 0] }
    \cup { [kind |-> "ok", mcqs |-> n] : n \in 0..MaxParsed }

\* call_model of exp.py captures every exception
gen_call_model(outcome) ==
    [error |-> outcome.kind = "exception", content |-> outcome.mcqs]

\* the keys gen-001, gen-002, ... of the question objects of the text
parse_generated_mcqs(content) == [x \in 1..content |-> x]

\* lines 398-404: every key gets the file name of its image in front
Renamed(filename, parsed) ==
    [x \in 1..Len(parsed) |-> [file |-> filename, key |-> parsed[x]]]

\* dict.update on the keys: a key already there keeps its place
DictUpdate(keys, new) ==
    keys \o SelectSeq(new, LAMBDA x : x \notin Range(keys))

\* a loop that never stops early
ReachedTarget_never(n, target) == FALSE

\* line 409: len(all_mcqs) >= target_questions
ReachedTarget(n, target) == n >= target

\* lines 345-362: the images of the run are drawn from the library (fresh)
\* or from the baseline candidates; an empty pool raises
SelectImages ==
    /\ pc = "start"
    /\ LET pool == IF fresh THEN all_files ELSE candidates
       IN  IF pool = <<>>
           THEN pc' = "raised" /\ UNCHANGED image_iterator
           ELSE /\ image_iterator' \in Samples(pool, Min(NUM_BASELINES, Len(pool)))
                /\ pc' = "loop"
    /\ UNCHANGED <<fresh, candidates, all_files, target_questions, idx, gen_all_mcqs,
                   calls, run_file, master_file, view_vars, run_vars, evals_db, saved>>

\* lines 364-414: the loop body for the next image: one call; an error
\* goes on to the next image, an answer is parsed and added, and the loop
\* breaks once the target is reached
GenerateForImage ==
    /\ pc = "loop"
    /\ idx < Len(image_iterator)
    /\ \E outcome \in GenOutcomes :
         LET resp == gen_call_model(outcome)
             filename == image_iterator[idx + 1]
             after == DictUpdate(gen_all_mcqs,
                                 Renamed(filename, parse_generated_mcqs(resp.content)))
         IN  /\ calls' = Append(calls, [pos |-> idx + 1, image |-> filename,
                                        error |-> resp.error])
             /\ idx' = idx + 1
             /\ IF resp.error
                THEN /\ UNCHANGED gen_all_mcqs
                     /\ pc' = IF idx + 1 < Len(image_iterator) THEN "loop" ELSE "save"
                ELSE /\ gen_all_mcqs' = after
                     /\ pc' = IF /\ ~ReachedTarget(Len(after), target_questions)
                                 /\ idx + 1 < Len(image_iterator)
                              THEN "loop" ELSE "save"
    /\ UNCHANGED <<fresh, candidates, all_files, target_questions, image_iterator,
                   run_file, master_file, view_vars, run_vars, evals_db, saved>>

\* lines 416-424 and save_mcqs: all_mcqs is cut to the target and, unless
\* empty, written to the file of the run and merged into the master file
SaveGenerated ==
    /\ pc = "save"
    /\ LET trimmed == IF Len(gen_all_mcqs) > target_questions
                      THEN Take(gen_all_mcqs, target_questions) ELSE gen_all_mcqs
       IN  /\ gen_all_mcqs' = trimmed
           /\ IF trimmed # <<>>
              THEN /\ run_file' = trimmed
                   /\ master_file' = DictUpdate(master_file, trimmed)
              ELSE UNCHANGED <<run_file, master_file>>
    /\ pc' = "done"
    /\ UNCHANGED <<fresh, candidates, all_files, target_questions, image_iterator, idx,
                   calls, view_vars, run_vars, evals_db, saved>>

InitGen ==
    /\ pc = "start"
    /\ fresh \in BOOLEAN
    /\ candidates \in {Take(ImageNames, n) : n \in 0..MaxPool}
    /\ all_files \in {Take(ImageNames, n) : n \in 0..MaxPool}
    /\ target_questions \in 1..MaxTarget
    /\ image_iterator = <<>>
    /\ idx = 0
    /\ gen_all_mcqs = <<>>
    /\ calls = <<>>
    /\ run_file = Absent
    /\ master_file = <<>>
    /\ ViewIdle
    /\ RunIdle
    /\ evals_db = <<>>
    /\ saved = <<>>

NextGen ==
    \/ SelectImages
    \/ GenerateForImage
    \/ SaveGenerated

SpecGen == InitGen /\ [][NextGen]_vars

\* C26: run_generation sends at most one call per selected image, sends no
\* call once all_mcqs holds target_questions keys, and never writes more
\* than target_questions keys to the file of the run; a call that ends in
\* an error adds nothing and the loop goes on with the next image, so a
\* finished run that stopped short of its last image has reached the target.
C26_GenerationBounded ==
    /\ [](/\ \A a, b \in 1..Len(calls) : calls[a].pos = calls[b].pos => a = b
          /\ \A a \in 1..Len(calls) :
                /\ calls[a].pos \in 1..Len(image_iterator)
                /\ calls[a].image = image_iterator[calls[a].pos]
          /\ Len(calls) <= NUM_BASELINES
          /\ run_file # Absent => Len(run_file) <= target_questions
          /\ (pc = "done" /\ Len(calls) < Len(image_iterator)) =>
                Len(run_file) = target_questions)
    /\ [][calls' # calls => Len(gen_all_mcqs) < target_questions]_vars
    /\ [][(calls' # calls /\ calls'[Len(calls')].error) =>
              /\ gen_all_mcqs' = gen_all_mcqs
              /\ idx' = idx + 1
              /\ idx' < Len(image_iterator) => pc' = "loop"]_vars

\* C26 witness: of three selected images the first got an error, the
\* second gave two questions for a target of one, and the third was never
\* sent: one key was saved
C26_Witness ==
    /\ pc = "done"
    /\ Len(image_iterator) = 3
    /\ Len(calls) = 2
    /\ calls[1].error
    /\ ~calls[2].error
    /\ target_questions = 1
    /\ Len(run_file) = 1

-----------------------------------------------------------------------------
(* Claims about the order of the results and about the shuffle *)

\* C27: whatever the order in which the concurrent calls return, the
\* results of a question are collected in roster order, each from the call
\* of its own model, and the student_evaluations of a block hold one entry
\* per roster model in roster order.
C27_ResultsInRosterOrder ==
    /\ [](/\ \A x \in 1..Len(results) : results[x].model = roster[x]
          /\ \A b \in 1..Len(q_results) :
                LET res == q_results[b].student_evaluations
                IN  /\ Len(res) = Len(roster)
                    /\ \A x \in 1..Len(res) : res[x].model = roster[x]
                    /\ \A x, y \in 1..Len(res) : res[x].model = res[y].model => x = y)
    /\ [][Len(results') = Len(results) + 1 =>
              /\ results'[Len(results')].model = roster[Len(results) + 1]
              /\ results'[Len(results')].time_ms = futures[Len(results) + 1].time_ms
              /\ SubSeq(results', 1, Len(results)) = results]_vars

\* C27 witness: with a roster of three the call of the third model has
\* returned before the call of the second, and the list holds the result of
\* the first model only
C27_Witness ==
    /\ pc = "collect"
    /\ Len(roster) = 3
    /\ Len(results) = 1
    /\ results[1].model = roster[1]
    /\ futures[3].done
    /\ ~futures[2].done

\* how often the pair c stands in the choice list
CountOf(choices, c) == Cardinality({x \in 1..Len(choices) : choices[x] = c})

\* C28: apply_validation, shuffling or not, leaves every question with the
\* same (id, text) pairs it had, each as often as before: the shuffle only
\* changes the order of the list; no pair is added, dropped or doubled, no
\* id gets another text, and no id stands twice in a list.
C28_ShuffleOnlyPermutes ==
    /\ [](\A x \in 1..Len(selected) :
              \A y, z \in 1..Len(selected[x].choices) :
                  selected[x].choices[y].id = selected[x].choices[z].id => y = z)
    /\ [][pc = "apply" =>
              \A x \in 1..Len(selected) :
                  /\ Len(selected'[x].choices) = Len(selected[x].choices)
                  /\ \A c \in Range(selected[x].choices) \cup Range(selected'[x].choices) :
                        CountOf(selected'[x].choices, c) = CountOf(selected[x].choices, c)]_vars

\* C28 witness: the question whose two choices carry the same text has been
\* shuffled into the order B, A, each id still with its text
C28_Witness ==
    /\ pc = "evaluate"
    /\ mcq.validation.shuffle_applied
    /\ selected[Cur].problem_id = Q2.problem_id
    /\ selected[Cur].choices = <<Choice("B", "x"), Choice("A", "x")>>

-----------------------------------------------------------------------------
(* model_eval/fixingdatabase.py: the script that rewrites the question     *)
(* blocks of one run record of the evaluations collection.  A block is     *)
(* kept with the keys of both layouts, Absent (NoNumber for a number)      *)
(* standing for a key the block lacks; a block without student_evaluations *)
(* and one with an empty list are read alike by the script and are kept    *)
(* alike.                                                                  *)

MaxBlocks == 2

MaxRepairs == 2

REPAIR_RUN_ID == "run_hybrid_20251119_1647"

\* stands for a numeric key that is missing
NoNumber == 0 - 1

\* time_ms as a plain int or as {"$numberInt": ...}
TimeInt(n) == [numberInt |-> FALSE, value |-> n]

TimeNumberInt(n) == [numberInt |-> TRUE, value |-> n]

\* a block in the layout the script expects: problem_id and stats on the
\* block itself
OldBlock(pid, accuracy, evaluations) ==
    [problem_id |-> pid, stats |-> [accuracy |-> accuracy],
     student_evaluations |-> evaluations,
     original_mcq_ref |-> [problem_id |-> Absent, collection |-> Absent],
     validation |-> NoValidation,
     question_stats |-> [accuracy |-> NoNumber, avg_time_ms |-> NoNumber]]

OldBlocks ==
    { OldBlock(pid, accuracy, evaluations) :
        pid \in {"p1", "p2"},
        accuracy \in {NoNumber, 500, 1000},
        evaluations \in { <<>>,
                          <<[model |-> "m1", time_ms |-> TimeInt(20)]>>,
                          <<[model |-> "m1", time_ms |-> TimeNumberInt(30)],
                            [model |-> "m2", time_ms |-> TimeInt(25)]>> } }

RunRecord(questions) ==
    [test_run_id |-> REPAIR_RUN_ID, questions |-> questions, stats |-> "old",
     schema_version |-> Absent, mode |-> Absent, sampler |-> Absent]

\* lines 43-91: the block the script builds from block q
RepairQuestion(q) ==
    LET count == Len(q.student_evaluations)
        total_ms == SumSeq([x \in 1..count |-> q.student_evaluations[x].time_ms.value])
        avg_ms == IF count > 0 THEN IntDiv(total_ms, count) ELSE 0
    IN  [problem_id |-> Absent, stats |-> [accuracy |-> NoNumber],
         student_evaluations |-> q.student_evaluations,
         original_mcq_ref |->
             [problem_id |-> IF q.problem_id = Absent THEN Null ELSE q.problem_id,
              collection |-> HYBRID_MCQ_COLLECTION],
         validation |->
             [validated_by |-> GEMINI_MODEL, original_answer |-> "A", final_answer |-> "A",
              original_difficulty |-> "unknown", final_difficulty |-> "unknown",
              shuffle_applied |-> FALSE, issues |-> <<>>],
         question_stats |->
             [accuracy |-> IF q.stats.accuracy = NoNumber THEN 0 ELSE q.stats.accuracy,
              avg_time_ms |-> avg_ms]]

\* lines 34-109: one run of the script: find_one on the run id and, when
\* the record is there, update_one with the rebuilt blocks
RunRepair ==
    /\ Len(saved) < MaxRepairs
    /\ LET found == {x \in 1..Len(evals_db) : evals_db[x].test_run_id = REPAIR_RUN_ID}
       IN  IF found = {}
           THEN /\ UNCHANGED evals_db
                /\ saved' = Append(saved, [found |-> FALSE, questions |-> <<>>])
           ELSE LET x == CHOOSE y \in found : \A z \in found : y <= z
                    doc == evals_db[x]
                    new_questions == [b \in 1..Len(doc.questions) |->
                                          RepairQuestion(doc.questions[b])]
                IN  /\ evals_db' = [evals_db EXCEPT ![x] =
                           [doc EXCEPT !.questions = new_questions, !.stats = Absent,
                                       !.schema_version = "eval-run-1.0",
                                       !.mode = "db", !.sampler = "sequential"]]
                    /\ saved' = Append(saved, [found |-> TRUE, questions |-> new_questions])
    /\ pc' = "done"
    /\ UNCHANGED <<gen_vars, view_vars, run_vars>>

InitRepair ==
    /\ pc = "start"
    /\ evals_db \in { <<>> }
           \cup { <<RunRecord(qs)>> :
                    qs \in UNION {[1..n -> OldBlocks] : n \in 0..MaxBlocks} }
    /\ saved = <<>>
    /\ GenIdle
    /\ ViewIdle
    /\ RunIdle

NextRepair == RunRepair

SpecRepair == InitRepair /\ [][NextRepair]_vars

\* C29 as stated: a second run of the script on the record the first run
\* repaired leaves the original_mcq_ref.problem_id and the
\* question_stats.accuracy of every block as the first run produced them.
C29_RepairIdempotent ==
    (Len(saved) = 2 /\ saved[1].found) =>
        /\ saved[2].found
        /\ Len(saved[2].questions) = Len(saved[1].questions)
        /\ \A b \in 1..Len(saved[1].questions) :
              /\ saved[2].questions[b].original_mcq_ref.problem_id
                     = saved[1].questions[b].original_mcq_ref.problem_id
              /\ saved[2].questions[b].question_stats.accuracy
                     = saved[1].questions[b].question_stats.accuracy

-----------------------------------------------------------------------------
(* streamlit/pages/01_Question_Viewer.py: one browser session.  A click    *)
(* on Prev or Next runs its callback and the page script is then run       *)
(* again; picking a choice and pressing Submit run the page script again.  *)
(* pc is "render" when the script is about to run, "shown" when the page   *)
(* is displayed.                                                           *)

MaxQuestions == 5

\* the ids of the choices st.radio offers
RadioIds == {"A", "B", "C", "D"}

\* line 115
NextIndex(q, n) == (q + 1) % n

\* a step back that stops at the first question
PrevIndex_clamped(q, n) == IF q = 0 THEN 0 ELSE q - 1

\* line 121: Python's % gives a result of the sign of the divisor
PrevIndex(q, n) == (q - 1) % n

\* lines 114-117: the callback of the Next button
next_question ==
    /\ pc = "shown"
    /\ session_state' = [q_index |-> NextIndex(session_state.q_index, num_questions),
                         answered |-> FALSE, user_choice |-> Null]
    /\ pc' = "render"
    /\ UNCHANGED <<num_questions, gen_vars, run_vars, evals_db, saved>>

\* lines 120-123: the callback of the Prev button
prev_question ==
    /\ pc = "shown"
    /\ session_state' = [q_index |-> PrevIndex(session_state.q_index, num_questions),
                         answered |-> FALSE, user_choice |-> Null]
    /\ pc' = "render"
    /\ UNCHANGED <<num_questions, gen_vars, run_vars, evals_db, saved>>

\* lines 138-210, the page script on its first run and after a callback:
\* st.radio gives the selection the widget holds (its default or one kept
\* from before) and the Submit button reads False
Render ==
    /\ pc = "render"
    /\ \E choice \in RadioIds :
          session_state' = [session_state EXCEPT !.user_choice = choice]
    /\ pc' = "shown"
    /\ UNCHANGED <<num_questions, gen_vars, run_vars, evals_db, saved>>

\* the user picks a choice: the page script runs with st.radio giving it
SelectChoice ==
    /\ pc = "shown"
    /\ \E choice \in RadioIds :
          session_state' = [session_state EXCEPT !.user_choice = choice]
    /\ UNCHANGED <<pc, num_questions, gen_vars, run_vars, evals_db, saved>>

\* lines 194-195: the user presses Submit: the page script runs with the
\* button reading True
Submit ==
    /\ pc = "shown"
    /\ session_state' = [session_state EXCEPT !.answered = TRUE]
    /\ UNCHANGED <<pc, num_questions, gen_vars, run_vars, evals_db, saved>>

\* lines 99-111: a session starts on the first of the questions, of which
\* there is at least one (the page stops otherwise)
InitView ==
    /\ pc = "render"
    /\ num_questions \in 1..MaxQuestions
    /\ session_state = [q_index |-> 0, answered |-> FALSE, user_choice |-> Null]
    /\ GenIdle
    /\ RunIdle
    /\ evals_db = <<>>
    /\ saved = <<>>

NextView ==
    \/ next_question
    \/ prev_question
    \/ Render
    \/ SelectChoice
    \/ Submit

SpecView == InitView /\ [][NextView]_vars

\* C30: through every sequence of clicks q_index stays in
\* 0..num_questions-1, Next from the last question leading to the first and
\* Prev from the first to the last, and Prev undoing Next; every navigation
\* sets answered to false and user_choice to none, and the question then
\* shown comes up unanswered.
C30_NavigationWrapsAndResets ==
    /\ [](/\ num_questions >= 1
          /\ session_state.q_index \in 0..(num_questions - 1)
          /\ PrevIndex(NextIndex(session_state.q_index, num_questions), num_questions)
                 = session_state.q_index
          /\ NextIndex(PrevIndex(session_state.q_index, num_questions), num_questions)
                 = session_state.q_index
          /\ session_state.q_index = num_questions - 1 =>
                 NextIndex(session_state.q_index, num_questions) = 0
          /\ session_state.q_index = 0 =>
                 PrevIndex(session_state.q_index, num_questions) = num_questions - 1
          /\ pc = "render" => (~session_state.answered /\ session_state.user_choice = Null))
    /\ [][(pc = "shown" /\ pc' = "render") =>
              /\ \/ session_state'.q_index = NextIndex(session_state.q_index, num_questions)
                 \/ session_state'.q_index = PrevIndex(session_state.q_index, num_questions)
              /\ session_state'.answered = FALSE
              /\ session_state'.user_choice = Null]_vars
    /\ [][session_state'.q_index # session_state.q_index => pc' = "render"]_vars
    /\ [][pc = "render" => session_state'.answered = FALSE]_vars

\* C30 witness: Prev on the first of three questions has led to the last
\* one, which is about to be shown
C30_Witness ==
    /\ pc = "render"
    /\ num_questions = 3
    /\ session_state.q_index = 2
    /\ ~session_state.answered
    /\ session_state.user_choice = Null

====
